---- MODULE Spec2Model ----
(***************************************************************************)
(* Model of the AtomisationService of daily-kastenator                     *)
(* (services/atomisation.ts): the session state machine, the candidate     *)
(* store and the asynchronous atom materialiser, running against an        *)
(* Obsidian vault.                                                         *)
(*                                                                         *)
(* Strings the code inspects character by character (concepts, titles)     *)
(* are sequences of one-character strings.  Objects the code holds by      *)
(* reference (the candidates) live in `heap`; the session's list and the   *)
(* array of an in-flight createAtoms call hold references into it.         *)
(***************************************************************************)
EXTENDS Integers, Sequences, FiniteSets, TLC

VARIABLES
  currentSession,  \* AtomisationService.currentSession: a session record or NoSession
  heap,            \* candidate objects by reference
  now,             \* the wall clock, Date.now()
  vault,           \* the vault: [folder |-> atom folder exists, files |-> path :> content]
  template,        \* what settings.atomTemplatePath resolves to: NoTemplate or a template
  call,            \* the createAtoms() call in flight (or the last one finished)
  calls,           \* number of createAtoms() calls made so far
  lastOp,          \* the last service operation invoked and how it returned
  observing,       \* whether the caller's view of the returns is recorded in lastOp
  materialised,    \* history: a createAtoms() call made on the current session has
                   \* gone through all of its approved candidates without error
  scheduler,       \* the NotificationScheduler: its settings and its two timer handles
  timers,          \* the timers of the window that are armed
  view             \* the AtomisationView: the page in its contentEl as last rendered

vars ==
  <<currentSession, heap, now, vault, template, call, calls, lastOp, observing, materialised,
    scheduler, timers, view>>

\* ---------------------------------------------------------------- bounds
MaxCandidates == 2   \* candidate objects alive at a time
MaxTime == 1         \* clock ticks
MaxCalls == 1        \* createAtoms() calls

\* ---------------------------------------------------------------- strings
TitleLimit == 80
TitleKeep == 77
MinExplanation == 20

Ellipsis == <<".", ".", ".">>

Repeat(c, n) == [i \in 1..n |-> c]

\* String.prototype.slice(from, to) with 0 <= from, on sequences of characters
Slice(s, from, to) ==
  LET hi == IF to > Len(s) THEN Len(s) ELSE to
  IN  IF from >= hi THEN <<>> ELSE SubSeq(s, from + 1, hi)

Whitespace == {" ", "\t", "\n"}

RECURSIVE TrimStart(_)
TrimStart(s) ==
  IF s # <<>> /\ Head(s) \in Whitespace THEN TrimStart(Tail(s)) ELSE s

RECURSIVE TrimEnd(_)
TrimEnd(s) ==
  IF s # <<>> /\ s[Len(s)] \in Whitespace THEN TrimEnd(SubSeq(s, 1, Len(s) - 1)) ELSE s

\* String.prototype.trim()
Trim(s) == TrimEnd(TrimStart(s))

\* String.prototype.toUpperCase() on one character of the model's alphabet
ToUpperCase(c) ==
  CASE c = "a" -> "A"
    [] c = "b" -> "B"
    [] c = "d" -> "D"
    [] c = "p" -> "P"
    [] c = "u" -> "U"
    [] c = "x" -> "X"
    [] OTHER -> c

\* suggestTitle cutting at the limit before it appends the ellipsis
suggestTitleCutsLate(concept) ==
  LET trimmed == Trim(concept)
      capitalised ==
        IF trimmed = <<>> THEN <<>>
        ELSE <<ToUpperCase(trimmed[1])>> \o Slice(trimmed, 1, Len(trimmed))
  IN  IF Len(capitalised) > TitleLimit
        THEN Slice(capitalised, 0, TitleLimit) \o Ellipsis
        ELSE capitalised

\* suggestTitle without the capitalisation
suggestTitleKeepsCase(concept) ==
  LET trimmed == Trim(concept)
  IN  IF Len(trimmed) > TitleLimit
        THEN Slice(trimmed, 0, TitleKeep) \o Ellipsis
        ELSE trimmed

\* suggestTitle(concept)
suggestTitle(concept) ==
  LET trimmed == Trim(concept)
      capitalised ==
        IF trimmed = <<>> THEN <<>>
        ELSE <<ToUpperCase(trimmed[1])>> \o Slice(trimmed, 1, Len(trimmed))
  IN  IF Len(capitalised) > TitleLimit
        THEN Slice(capitalised, 0, TitleKeep) \o Ellipsis
        ELSE capitalised

PathHostile == {"\\", "/", ":", "*", "?", "\"", "<", ">", "|"}

\* sanitiseTitle trimming before it removes the characters
sanitiseTitleTrimsFirst(title) == SelectSeq(Trim(title), LAMBDA c : c \notin PathHostile)

\* candidate.suggestedTitle.replace(/[\\/:*?"<>|]/g, '').trim()
sanitiseTitle(title) == Trim(SelectSeq(title, LAMBDA c : c \notin PathHostile))

\* ---------------------------------------------------------------- inputs
DupConcept == <<"d", "u", "p">>
LongConcept == Repeat("x", 100)
OtherConcept == <<"a", "b">>
Concepts == {DupConcept, LongConcept}
AtomConcepts == {DupConcept, OtherConcept}

LongTitle == Repeat("x", 81)

Notes == {"NoteA", "NoteB"}

\* ---------------------------------------------------------------- phases
phaseOrder ==
  << "introduction", "identification", "explanation", "critique",
     "refinement", "confirmation", "creation", "complete" >>

AtomisationPhase == {phaseOrder[i] : i \in 1..Len(phaseOrder)}

\* Array.prototype.indexOf: 0-based, -1 when absent
IndexOf(arr, x) ==
  IF \E i \in 1..Len(arr) : arr[i] = x
    THEN (CHOOSE i \in 1..Len(arr) : arr[i] = x /\ \A j \in 1..(i - 1) : arr[j] # x) - 1
    ELSE -1

\* NextPhase with the index wrapping round instead of falling back to 'complete'
NextPhaseWraps(phase) ==
  LET currentIndex == IndexOf(phaseOrder, phase)
  IN  phaseOrder[((currentIndex + 1) % Len(phaseOrder)) + 1]

\* phaseOrder[currentIndex + 1] ?? 'complete'
NextPhase(phase) ==
  LET currentIndex == IndexOf(phaseOrder, phase)
  IN  IF currentIndex + 1 < Len(phaseOrder)
        THEN phaseOrder[(currentIndex + 1) + 1]
        ELSE "complete"

\* ---------------------------------------------------------------- values
NoSession == [none |-> TRUE]
NoTemplate == <<>>
NoSuffix == -1
NoSource == "(none)"
NoError == "(none)"
NoActiveSession == "No active session"
FileExists == "File already exists"
StorageFailure == "StorageFailure"
TypeError == "TypeError: Cannot set properties of null"

Refs == 1..MaxCandidates

HasSession == currentSession # NoSession
Candidates == currentSession.candidates

\* the ids present in the current session's list
SessionIds == {heap[Candidates[k]].id : k \in 1..Len(Candidates)}

\* an id that generateId() never produces
FakeId == [t |-> -1, r |-> 0]

\* the objects still referenced: by the session's list, and by the array of
\* approved candidates while a createAtoms() call is running
Reachable(h, session, c) ==
  LET live == (IF session = NoSession THEN {}
               ELSE {session.candidates[k] : k \in 1..Len(session.candidates)})
              \cup (IF c.pc \in {"awaitFolder", "awaitContent", "awaitTemplate", "awaitCreate"}
                      THEN {c.approved[k] : k \in 1..Len(c.approved)}
                      ELSE {})
  IN  [ref \in (DOMAIN h) \cap live |-> h[ref]]

IdleCall ==
  [ pc |-> "idle", approved |-> <<>>, i |-> 0, createdFiles |-> <<>>,
    sanitisedTitle |-> <<>>, content |-> <<>>, target |-> <<>>, error |-> NoError,
    \* history of the call
    note |-> NoSource, replaced |-> FALSE, createdFor |-> <<>>,
    overwrote |-> FALSE, touched |-> FALSE ]

InFlight == call.pc \in {"awaitFolder", "awaitContent", "awaitTemplate", "awaitCreate"}

\* the view before onOpen(): nothing is rendered
NoView == [page |-> "(none)", items |-> <<>>, nav |-> {}]

\* lastOp when the caller has taken the result of its last call
NoOp == [op |-> "(none)", err |-> NoError, ret |-> "(none)", ref |-> 0]

\* The model follows the service until its last createAtoms() call has settled.
Settled == calls = MaxCalls /\ ~InFlight

\* the service is idle and the caller may invoke an operation
Ready == lastOp = NoOp /\ ~Settled

\* the call returned: `ret` names the value, `ref` is the candidate object returned
Returned(op, ret) ==
  IF observing THEN [op |-> op, err |-> NoError, ret |-> ret, ref |-> 0] ELSE NoOp
ReturnedCandidate(op, ref) ==
  IF observing THEN [op |-> op, err |-> NoError, ret |-> "candidate", ref |-> ref] ELSE NoOp
\* the call threw
Threw(op, err) ==
  IF observing THEN [op |-> op, err |-> err, ret |-> "(none)", ref |-> 0] ELSE NoOp

\* ---------------------------------------------------------------- session
\* startSession replacing a session only when it is in its first phase
StartSessionKeepsStarted(sourceNote) ==
  /\ lastOp = NoOp
  /\ Settled => (HasSession /\ currentSession.completed)
  /\ currentSession' =
       IF HasSession /\ currentSession.phase # "introduction"
         THEN currentSession
         ELSE [ sourceNote |-> sourceNote, candidates |-> <<>>, phase |-> "introduction",
                startedAt |-> now, completed |-> FALSE ]
  /\ call' = IF InFlight THEN [call EXCEPT !.replaced = TRUE] ELSE call
  /\ heap' = Reachable(heap, currentSession', call')
  /\ materialised' = FALSE
  /\ lastOp' = Returned("startSession", "session")
  /\ UNCHANGED <<view, scheduler, timers, now, vault, template, observing, calls>>

\* startSession(sourceNote); once the last createAtoms() call has settled, the
\* model still follows the start of the next session on a completed one
StartSession(sourceNote) ==
  /\ lastOp = NoOp
  /\ Settled => (HasSession /\ currentSession.completed)
  /\ currentSession' =
       [ sourceNote |-> sourceNote, candidates |-> <<>>, phase |-> "introduction",
         startedAt |-> now, completed |-> FALSE ]
  /\ call' = IF InFlight THEN [call EXCEPT !.replaced = TRUE] ELSE call
  /\ heap' = Reachable(heap, currentSession', call')
  /\ materialised' = FALSE
  /\ lastOp' = Returned("startSession", "session")
  /\ UNCHANGED <<view, scheduler, timers, now, vault, template, observing, calls>>

\* getSession()
GetSession ==
  /\ Ready
  /\ lastOp' = Returned("getSession", IF HasSession THEN "session" ELSE "null")
  /\ UNCHANGED <<view, scheduler, timers, currentSession, heap, now, vault, template, observing,
                 call, calls, materialised>>

\* endSession throwing, like advancePhase, when there is no session
EndSessionThrows ==
  /\ Ready
  /\ currentSession' = NoSession
  /\ call' = IF InFlight /\ HasSession THEN [call EXCEPT !.replaced = TRUE] ELSE call
  /\ heap' = Reachable(heap, currentSession', call')
  /\ materialised' = FALSE
  /\ lastOp' = IF HasSession THEN Returned("endSession", "undefined")
                ELSE Threw("endSession", NoActiveSession)
  /\ UNCHANGED <<view, scheduler, timers, now, vault, template, observing, calls>>

\* endSession()
EndSession ==
  /\ Ready
  /\ currentSession' = NoSession
  /\ call' = IF InFlight /\ HasSession THEN [call EXCEPT !.replaced = TRUE] ELSE call
  /\ heap' = Reachable(heap, currentSession', call')
  /\ materialised' = FALSE
  /\ lastOp' = Returned("endSession", "undefined")
  /\ UNCHANGED <<view, scheduler, timers, now, vault, template, observing, calls>>

\* advancePhase()
AdvancePhase ==
  /\ Ready
  /\ IF ~HasSession
       THEN /\ lastOp' = Threw("advancePhase", NoActiveSession)
            /\ UNCHANGED currentSession
       ELSE LET nextPhase == NextPhase(currentSession.phase)
            IN  /\ currentSession' = [currentSession EXCEPT !.phase = nextPhase]
                /\ lastOp' = Returned("advancePhase", nextPhase)
  /\ UNCHANGED <<view, scheduler, timers, heap, now, vault, template, observing, call, calls,
                 materialised>>

\* setPhase returning silently when there is no session
SetPhaseSilent(phase) ==
  /\ Ready
  /\ IF ~HasSession
       THEN /\ lastOp' = Returned("setPhase", "undefined")
            /\ UNCHANGED currentSession
       ELSE /\ currentSession' = [currentSession EXCEPT !.phase = phase]
            /\ lastOp' = Returned("setPhase", "undefined")
  /\ UNCHANGED <<view, scheduler, timers, heap, now, vault, template, observing, call, calls,
                 materialised>>

\* setPhase refusing to go back in the phase order
SetPhaseForwardOnly(phase) ==
  /\ Ready
  /\ IF ~HasSession
       THEN /\ lastOp' = Threw("setPhase", NoActiveSession)
            /\ UNCHANGED currentSession
       ELSE /\ currentSession' =
                 IF IndexOf(phaseOrder, phase) < IndexOf(phaseOrder, currentSession.phase)
                   THEN currentSession
                   ELSE [currentSession EXCEPT !.phase = phase]
            /\ lastOp' = Returned("setPhase", "undefined")
  /\ UNCHANGED <<view, scheduler, timers, heap, now, vault, template, observing, call, calls,
                 materialised>>

\* setPhase(phase)
SetPhase(phase) ==
  /\ Ready
  /\ IF ~HasSession
       THEN /\ lastOp' = Threw("setPhase", NoActiveSession)
            /\ UNCHANGED currentSession
       ELSE /\ currentSession' = [currentSession EXCEPT !.phase = phase]
            /\ lastOp' = Returned("setPhase", "undefined")
  /\ UNCHANGED <<view, scheduler, timers, heap, now, vault, template, observing, call, calls,
                 materialised>>

\* ---------------------------------------------------------------- candidates
\* generateId(): `atom-${Date.now()}-${Math.random()...}`
generateId(random) == [t |-> now, r |-> random]

\* the reference the next allocated object gets
NewRef == CHOOSE ref \in Refs : ref \notin DOMAIN heap /\ \A q \in Refs : q < ref => q \in DOMAIN heap

\* addCandidate putting the new candidate in front (unshift for push)
AddCandidateInFront(concept, random) ==
  /\ Ready
  /\ IF ~HasSession
       THEN /\ lastOp' = Threw("addCandidate", NoActiveSession)
            /\ UNCHANGED <<view, scheduler, timers, currentSession, heap>>
       ELSE /\ \E ref \in Refs : ref \notin DOMAIN heap
            /\ LET candidate ==
                     [ id |-> generateId(random), concept |-> concept,
                       explanation |-> <<>>, evidence |-> <<>>,
                       suggestedTitle |-> suggestTitle(concept),
                       tags |-> <<>>, relatedAtoms |-> <<>>, critique |-> <<>>,
                       approved |-> FALSE ]
               IN  /\ heap' = [ref \in (DOMAIN heap) \cup {NewRef} |->
                                 IF ref = NewRef THEN candidate ELSE heap[ref]]
                   /\ currentSession' =
                        [currentSession EXCEPT !.candidates = <<NewRef>> \o @]
                   /\ lastOp' = ReturnedCandidate("addCandidate", NewRef)
  /\ UNCHANGED <<view, scheduler, timers, now, vault, template, observing, call, calls,
                 materialised>>

\* addCandidate(concept)
AddCandidate(concept, random) ==
  /\ Ready
  /\ IF ~HasSession
       THEN /\ lastOp' = Threw("addCandidate", NoActiveSession)
            /\ UNCHANGED <<view, scheduler, timers, currentSession, heap>>
       ELSE /\ \E ref \in Refs : ref \notin DOMAIN heap
            /\ LET candidate ==
                     [ id |-> generateId(random), concept |-> concept,
                       explanation |-> <<>>, evidence |-> <<>>,
                       suggestedTitle |-> suggestTitle(concept),
                       tags |-> <<>>, relatedAtoms |-> <<>>, critique |-> <<>>,
                       approved |-> FALSE ]
               IN  /\ heap' = [ref \in (DOMAIN heap) \cup {NewRef} |->
                                 IF ref = NewRef THEN candidate ELSE heap[ref]]
                   /\ currentSession' =
                        [currentSession EXCEPT !.candidates = Append(@, NewRef)]
                   /\ lastOp' = ReturnedCandidate("addCandidate", NewRef)
  /\ UNCHANGED <<view, scheduler, timers, now, vault, template, observing, call, calls,
                 materialised>>

\* candidates.findIndex((c) => c.id === id): 0-based, -1 when absent
FindIndex(id) ==
  IF \E k \in 1..Len(Candidates) : heap[Candidates[k]].id = id
    THEN (CHOOSE k \in 1..Len(Candidates) :
            /\ heap[Candidates[k]].id = id
            /\ \A j \in 1..(k - 1) : heap[Candidates[j]].id # id) - 1
    ELSE -1

\* Object.assign skipping a title that is the empty string (a truthiness test)
ObjectAssignSkipsEmptyTitle(candidate, updates) ==
  [f \in DOMAIN candidate |->
     IF f \in DOMAIN updates /\ ~(f = "suggestedTitle" /\ updates[f] = <<>>)
       THEN updates[f] ELSE candidate[f]]

\* Object.assign(candidate, updates)
ObjectAssign(candidate, updates) ==
  [f \in DOMAIN candidate |-> IF f \in DOMAIN updates THEN updates[f] ELSE candidate[f]]

\* updateCandidate throwing for an id it does not find
UpdateCandidateRejectsUnknown(id, updates) ==
  /\ Ready
  /\ IF ~HasSession
       THEN /\ lastOp' = Returned("updateCandidate", "null")
            /\ UNCHANGED heap
       ELSE LET index == FindIndex(id)
            IN  IF index = -1
                  THEN /\ lastOp' = Threw("updateCandidate", "Candidate not found")
                       /\ UNCHANGED heap
                  ELSE LET ref == Candidates[index + 1]
                       IN  /\ heap' = [heap EXCEPT ![ref] = ObjectAssign(@, updates)]
                           /\ lastOp' = ReturnedCandidate("updateCandidate", ref)
  /\ UNCHANGED <<view, scheduler, timers, currentSession, now, vault, template, observing, call,
                 calls, materialised>>

\* updateCandidate(id, updates)
UpdateCandidate(id, updates) ==
  /\ Ready
  /\ IF ~HasSession
       THEN /\ lastOp' = Returned("updateCandidate", "null")
            /\ UNCHANGED heap
       ELSE LET index == FindIndex(id)
            IN  IF index = -1
                  THEN /\ lastOp' = Returned("updateCandidate", "null")
                       /\ UNCHANGED heap
                  ELSE LET ref == Candidates[index + 1]
                       IN  /\ heap' = [heap EXCEPT ![ref] = ObjectAssign(@, updates)]
                           /\ lastOp' = ReturnedCandidate("updateCandidate", ref)
  /\ UNCHANGED <<view, scheduler, timers, currentSession, now, vault, template, observing, call,
                 calls, materialised>>

\* candidates.splice(index, 1)
Splice(arr, index) ==
  [k \in 1..(Len(arr) - 1) |-> IF k < index + 1 THEN arr[k] ELSE arr[k + 1]]

\* removeCandidate throwing, like advancePhase, when there is no session
RemoveCandidateThrows(id) ==
  /\ Ready
  /\ IF ~HasSession
       THEN /\ lastOp' = Threw("removeCandidate", NoActiveSession)
            /\ UNCHANGED <<view, scheduler, timers, currentSession, heap>>
       ELSE LET index == FindIndex(id)
            IN  IF index = -1
                  THEN /\ lastOp' = Returned("removeCandidate", "false")
                       /\ UNCHANGED <<view, scheduler, timers, currentSession, heap>>
                  ELSE /\ currentSession' =
                            [currentSession EXCEPT !.candidates = Splice(@, index)]
                       /\ heap' = Reachable(heap, currentSession', call)
                       /\ lastOp' = Returned("removeCandidate", "true")
  /\ UNCHANGED <<view, scheduler, timers, now, vault, template, observing, call, calls,
                 materialised>>

\* removeCandidate(id)
RemoveCandidate(id) ==
  /\ Ready
  /\ IF ~HasSession
       THEN /\ lastOp' = Returned("removeCandidate", "false")
            /\ UNCHANGED <<view, scheduler, timers, currentSession, heap>>
       ELSE LET index == FindIndex(id)
            IN  IF index = -1
                  THEN /\ lastOp' = Returned("removeCandidate", "false")
                       /\ UNCHANGED <<view, scheduler, timers, currentSession, heap>>
                  ELSE /\ currentSession' =
                            [currentSession EXCEPT !.candidates = Splice(@, index)]
                       /\ heap' = Reachable(heap, currentSession', call)
                       /\ lastOp' = Returned("removeCandidate", "true")
  /\ UNCHANGED <<view, scheduler, timers, now, vault, template, observing, call, calls,
                 materialised>>

\* the updates the model passes to updateCandidate
Approvals == { [approved |-> TRUE], [approved |-> FALSE] }

Patches ==
  Approvals \cup { [suggestedTitle |-> LongTitle], [suggestedTitle |-> <<>>] }
  \cup (IF HasSession THEN {[id |-> x] : x \in SessionIds} ELSE {})

\* ---------------------------------------------------------------- vault
\* normalizePath(`${atomFolder}/${sanitisedTitle}.md`) and
\* normalizePath(`${atomFolder}/${sanitisedTitle}-${timestamp}.md`)
AtomPath(sanitisedTitle, suffix) == [base |-> sanitisedTitle, suffix |-> suffix]

\* vault.getAbstractFileByPath(path) is not null
Exists(v, path) == path \in DOMAIN v.files

\* the file written by vault.create(path, content)
WithFile(v, path, content) ==
  [v EXCEPT !.files = [q \in (DOMAIN v.files) \cup {path} |->
                         IF q = path THEN content ELSE v.files[q]]]

ExistingContent == << [k |-> "text", v |-> <<"o", "l", "d">>] >>

NoFiles == [q \in {} |-> <<>>]

\* ---------------------------------------------------------------- content
Line(k, v) == [k |-> k, v |-> v]

\* buildAtomContent pushing the Evidence section whether or not there is evidence
buildAtomContentAlwaysEvidence(candidate, session) ==
  LET sourceNote == IF session = NoSession THEN NoSource ELSE session.sourceNote
  IN  << Line("fence", "---"), Line("created", now), Line("type", "atom") >>
      \o (IF Len(candidate.tags) > 0 THEN << Line("tags", candidate.tags) >> ELSE <<>>)
      \o (IF sourceNote # NoSource THEN << Line("source", sourceNote) >> ELSE <<>>)
      \o << Line("fence", "---"), Line("blank", ""),
            Line("h1", candidate.suggestedTitle), Line("blank", ""),
            Line("text", candidate.explanation), Line("blank", "") >>
      \o << Line("h2", "Evidence"), Line("blank", ""),
            Line("quote", candidate.evidence), Line("blank", "") >>
      \o (IF Len(candidate.relatedAtoms) > 0
            THEN << Line("h2", "Related"), Line("blank", "") >>
                 \o [k \in 1..Len(candidate.relatedAtoms) |->
                       Line("link", candidate.relatedAtoms[k])]
                 \o << Line("blank", "") >>
            ELSE <<>>)

\* buildAtomContent(candidate): the lines pushed, in order
buildAtomContent(candidate, session) ==
  LET sourceNote == IF session = NoSession THEN NoSource ELSE session.sourceNote
  IN  << Line("fence", "---"), Line("created", now), Line("type", "atom") >>
      \o (IF Len(candidate.tags) > 0 THEN << Line("tags", candidate.tags) >> ELSE <<>>)
      \o (IF sourceNote # NoSource THEN << Line("source", sourceNote) >> ELSE <<>>)
      \o << Line("fence", "---"), Line("blank", ""),
            Line("h1", candidate.suggestedTitle), Line("blank", ""),
            Line("text", candidate.explanation), Line("blank", "") >>
      \o (IF candidate.evidence # <<>>
            THEN << Line("h2", "Evidence"), Line("blank", ""),
                    Line("quote", candidate.evidence), Line("blank", "") >>
            ELSE <<>>)
      \o (IF Len(candidate.relatedAtoms) > 0
            THEN << Line("h2", "Related"), Line("blank", "") >>
                 \o [k \in 1..Len(candidate.relatedAtoms) |->
                       Line("link", candidate.relatedAtoms[k])]
                 \o << Line("blank", "") >>
            ELSE <<>>)

\* the template file's text, as the sequence of its placeholders and literal parts
AtomTemplate == << "{{title}}", "literal", "{{content}}" >>

\* applyTemplate(template, candidate, defaultContent)
applyTemplate(templateContent, candidate, defaultContent) ==
  [k \in 1..Len(templateContent) |->
     LET part == templateContent[k]
     IN  CASE part = "{{title}}" -> Line("title", candidate.suggestedTitle)
           [] part = "{{concept}}" -> Line("concept", candidate.concept)
           [] part = "{{explanation}}" -> Line("explanation", candidate.explanation)
           [] part = "{{evidence}}" -> Line("evidence", candidate.evidence)
           [] part = "{{tags}}" -> Line("tags", candidate.tags)
           [] part = "{{date}}" -> Line("date", now)
           [] part = "{{content}}" -> Line("content", defaultContent)
           [] OTHER -> Line("literal", part)]

\* ---------------------------------------------------------------- text of a file
\* new Date(t).toISOString(), the clock standing at t
toISOString(t) ==
  <<"2", "0", "2", "6", "-", "1", "1", "-", "0", "2", "T", "0", "9", ":", "0", "0", ":", "0",
  "0", ".", "0", "0">>
  \o <<ToString(t), "Z">>

\* the title of a source note
NoteTitle(note) ==
  CASE note = "NoteA" -> <<"N", "o", "t", "e", " ", "A">>
    [] note = "NoteB" -> <<"N", "o", "t", "e", " ", "B">>

\* texts.join(separator)
RECURSIVE JoinText(_, _)
JoinText(texts, separator) ==
  IF Len(texts) = 0 THEN <<>>
  ELSE IF Len(texts) = 1 THEN texts[1]
  ELSE texts[1] \o separator \o JoinText(Tail(texts), separator)

\* the string that buildAtomContent pushes for a line
LineText(line) ==
  CASE line.k = "fence" -> <<"-", "-", "-">>
    [] line.k = "created" ->
         <<"c", "r", "e", "a", "t", "e", "d", ":", " ">> \o toISOString(line.v)
    [] line.k = "type" -> <<"t", "y", "p", "e", ":", " ", "a", "t", "o", "m">>
    [] line.k = "tags" ->
         <<"t", "a", "g", "s", ":", " ", "[">> \o JoinText(line.v, <<",", " ">>) \o <<"]">>
    [] line.k = "source" ->
         <<"s", "o", "u", "r", "c", "e", ":", " ", "\"", "[", "[">> \o NoteTitle(line.v)
         \o <<"]", "]", "\"">>
    [] line.k = "blank" -> <<>>
    [] line.k = "h1" -> <<"#", " ">> \o line.v
    [] line.k = "text" -> line.v
    [] line.k = "h2" ->
         IF line.v = "Evidence"
           THEN <<"#", "#", " ", "E", "v", "i", "d", "e", "n", "c", "e">>
           ELSE <<"#", "#", " ", "R", "e", "l", "a", "t", "e", "d">>
    [] line.k = "quote" -> <<">", " ">> \o line.v
    [] line.k = "link" -> <<"-", " ", "[", "[">> \o line.v \o <<"]", "]">>

\* lines.join('\n')
Text(lines) == JoinText([k \in 1..Len(lines) |-> LineText(lines[k])], <<"\n">>)

\* `text` from position `from` on, with the `width[i]` characters at each
\* position i of `starts` replaced by `by[i]`
RECURSIVE Rewrite(_, _, _, _, _)
Rewrite(text, from, starts, width, by) ==
  IF starts = {} THEN SubSeq(text, from, Len(text))
  ELSE LET at == CHOOSE i \in starts : \A j \in starts : i <= j
       IN  SubSeq(text, from, at - 1) \o by[at]
           \o Rewrite(text, at + width[at], starts \ {at}, width, by)

\* the positions at which `pattern` occurs in `text`
Occurrences(text, pattern) ==
  { i \in 1..(Len(text) - Len(pattern) + 1) :
      SubSeq(text, i, i + Len(pattern) - 1) = pattern }

\* What String.prototype.replace makes of a replacement string for the match
\* at `position` (ECMAScript GetSubstitution, no capture groups): $$ is a
\* dollar sign, $& the matched text, $' the text after the match.  A $ opens a
\* pattern when an even number of $ precede it directly.  The pattern for the
\* text before the match needs a backquote, which the alphabet here has not.
GetSubstitution(matched, text, position, replacement) ==
  LET Dollars(i) ==
        CHOOSE n \in 0..(i - 1) :
          /\ \A j \in (i - n)..(i - 1) : replacement[j] = "$"
          /\ (i - n = 1 \/ replacement[i - n - 1] # "$")
      opens == { i \in 1..(Len(replacement) - 1) :
                   /\ replacement[i] = "$"
                   /\ replacement[i + 1] \in {"$", "&", "'"}
                   /\ Dollars(i) % 2 = 0 }
      by == [ i \in opens |->
                CASE replacement[i + 1] = "$" -> <<"$">>
                  [] replacement[i + 1] = "&" -> matched
                  [] replacement[i + 1] = "'" ->
                       SubSeq(text, position + Len(matched), Len(text)) ]
  IN  Rewrite(replacement, 1, opens, [i \in opens |-> 2], by)

\* text.replace(/pattern/g, replacement) for a pattern that matches one literal
\* string which cannot overlap itself
replace(text, pattern, replacement) ==
  LET starts == Occurrences(text, pattern)
  IN  Rewrite(text, 1, starts, [i \in starts |-> Len(pattern)],
              [i \in starts |-> GetSubstitution(pattern, text, i, replacement)])

\* new Date(t).toISOString().split('T')[0]
DateOf(t) ==
  LET iso == toISOString(t)
      at == CHOOSE i \in 1..Len(iso) : iso[i] = "T" /\ \A j \in 1..(i - 1) : iso[j] # "T"
  IN  SubSeq(iso, 1, at - 1)

\* the template variables in the order applyTemplate replaces them
Placeholders ==
  << <<"{", "{", "t", "i", "t", "l", "e", "}", "}">>,
     <<"{", "{", "c", "o", "n", "c", "e", "p", "t", "}", "}">>,
     <<"{", "{", "e", "x", "p", "l", "a", "n", "a", "t", "i", "o", "n", "}", "}">>,
     <<"{", "{", "e", "v", "i", "d", "e", "n", "c", "e", "}", "}">>,
     <<"{", "{", "t", "a", "g", "s", "}", "}">>,
     <<"{", "{", "d", "a", "t", "e", "}", "}">>,
     <<"{", "{", "c", "o", "n", "t", "e", "n", "t", "}", "}">> >>

\* the value applyTemplate gives each template variable
TemplateValues(candidate, defaultContent) ==
  << candidate.suggestedTitle, candidate.concept, candidate.explanation,
     candidate.evidence, JoinText(candidate.tags, <<",", " ">>), DateOf(now),
     defaultContent >>

\* applyTemplate(template, candidate, defaultContent) on the template's text:
\* the seven replace calls, each on the result of the one before
RECURSIVE ReplaceFrom(_, _, _)
ReplaceFrom(text, n, values) ==
  IF n > Len(Placeholders) THEN text
  ELSE ReplaceFrom(replace(text, Placeholders[n], values[n]), n + 1, values)

applyTemplateToText(templateText, candidate, defaultContent) ==
  ReplaceFrom(templateText, 1, TemplateValues(candidate, defaultContent))

\* the name of the file at an atom path: `${sanitisedTitle}.md` or
\* `${sanitisedTitle}-${timestamp}.md`
FileName(path) ==
  path.base \o (IF path.suffix = NoSuffix THEN <<>> ELSE <<"-", ToString(path.suffix)>>)
  \o <<".", "m", "d">>

\* ---------------------------------------------------------------- createAtoms
\* The call runs in segments between its awaits.  A segment maps the machine
\* m = [call, session, vault, materialised] to the machine at the next await
\* (or at the call's end); the heap is read as it is when the segment runs.

\* Reject with the session marked completed on the way out (a `finally`)
RejectMarksCompleted(m, error) ==
  [m EXCEPT !.call.pc = "rejected", !.call.error = error,
            !.session = IF @ = NoSession THEN @ ELSE [@ EXCEPT !.completed = TRUE]]

\* createAtoms, lines 346-351: an error thrown by createAtomFile leaves the loop and
\* rejects the call
Reject(m, error) == [m EXCEPT !.call.pc = "rejected", !.call.error = error]

\* createAtomFile, lines 389-400: the existence check and the vault.create call
CheckAndCreate(m) ==
  LET filepath == AtomPath(m.call.sanitisedTitle, NoSuffix)
      existing == Exists(m.vault, filepath)
      timestamp == now
      uniquePath == AtomPath(m.call.sanitisedTitle, timestamp)
  IN  [m EXCEPT !.call.pc = "awaitCreate",
                !.call.target = IF existing THEN uniquePath ELSE filepath]

\* createAtomFile, lines 370-378: the filename and `await this.buildAtomContent`
BuildContent(m) ==
  LET candidate == heap[m.call.approved[m.call.i]]
  IN  [m EXCEPT !.call.pc = "awaitContent",
                !.call.sanitisedTitle = sanitiseTitle(candidate.suggestedTitle),
                !.call.content = buildAtomContent(candidate, m.session)]

\* createAtomFile, lines 361-368: the folder check
createAtomFile(m) ==
  IF ~m.vault.folder THEN [m EXCEPT !.call.pc = "awaitFolder"] ELSE BuildContent(m)

\* createAtoms, lines 353-354: after the loop
Complete(m) ==
  IF m.session = NoSession
    THEN Reject(m, TypeError)
    ELSE [m EXCEPT !.session.completed = TRUE,
                   !.call.pc = "resolved",
                   !.call.touched = m.call.replaced,
                   !.materialised = @ \/ ~m.call.replaced]

\* createAtoms, lines 346-351: the next iteration of the loop
NextCandidate(m) ==
  IF m.call.i < Len(m.call.approved)
    THEN createAtomFile([m EXCEPT !.call.i = @ + 1])
    ELSE Complete(m)

\* Approved without the filter
ApprovedAll(candidates) == candidates

\* this.currentSession.candidates.filter((c) => c.approved)
Approved(candidates) == SelectSeq(candidates, LAMBDA ref : heap[ref].approved)

Machine == [call |-> call, session |-> currentSession, vault |-> vault,
            materialised |-> materialised]

Install(m) ==
  /\ call' = m.call
  /\ currentSession' = m.session
  /\ vault' = m.vault
  /\ materialised' = m.materialised
  /\ heap' = Reachable(heap, m.session, m.call)

\* createAtoms(): the call, up to its first await
CreateAtoms ==
  /\ Ready
  /\ ~InFlight
  /\ IF ~HasSession
       THEN /\ call' = [IdleCall EXCEPT !.pc = "rejected", !.error = NoActiveSession]
            /\ UNCHANGED <<view, scheduler, timers, currentSession, vault, materialised,
                           heap, calls>>
       ELSE /\ calls < MaxCalls
            /\ calls' = calls + 1
            /\ LET approvedCandidates == Approved(Candidates)
                   started ==
                     [IdleCall EXCEPT !.pc = "running",
                                      !.approved = approvedCandidates,
                                      !.note = currentSession.sourceNote]
               IN  Install(NextCandidate([Machine EXCEPT !.call = started]))
  /\ lastOp' = Returned("createAtoms", "promise")
  /\ UNCHANGED <<view, scheduler, timers, now, template, observing>>

\* `await this.app.vault.createFolder(folderPath)` settles
ResumeCreateFolder ==
  /\ lastOp = NoOp
  /\ call.pc = "awaitFolder"
  /\ \/ Install(BuildContent([Machine EXCEPT !.vault.folder = TRUE]))
     \/ Install(Reject(Machine, StorageFailure))
  /\ UNCHANGED <<view, scheduler, timers, now, template, observing, calls, lastOp>>

\* `await this.buildAtomContent(candidate)` settles; the template check
ResumeBuildContent ==
  /\ lastOp = NoOp
  /\ call.pc = "awaitContent"
  /\ IF template # NoTemplate
       THEN Install([Machine EXCEPT !.call.pc = "awaitTemplate"])
       ELSE Install(CheckAndCreate(Machine))
  /\ UNCHANGED <<view, scheduler, timers, now, template, observing, calls, lastOp>>

\* `await this.app.vault.read(templateFile)` settles
ResumeReadTemplate ==
  /\ lastOp = NoOp
  /\ call.pc = "awaitTemplate"
  /\ \/ LET candidate == heap[call.approved[call.i]]
            content == applyTemplate(template, candidate, call.content)
        IN  Install(CheckAndCreate([Machine EXCEPT !.call.content = content]))
     \/ Install(Reject(Machine, StorageFailure))
  /\ UNCHANGED <<view, scheduler, timers, now, template, observing, calls, lastOp>>

\* the file of the call's pending vault.create is written
Created(m) ==
  [m EXCEPT !.vault = WithFile(m.vault, m.call.target, m.call.content),
            !.call.createdFiles = Append(@, m.call.target),
            !.call.createdFor = Append(@, m.call.approved[m.call.i]),
            !.call.overwrote = @ \/ Exists(m.vault, m.call.target)]

\* `await this.app.vault.create(path, content)` settles.  On a path that exists
\* Obsidian's vault rejects, the vault of tests/mocks/obsidian.ts overwrites.
ResumeCreate ==
  /\ lastOp = NoOp
  /\ call.pc = "awaitCreate"
  /\ \/ /\ ~Exists(vault, call.target)
        /\ Install(NextCandidate(Created(Machine)))
     \/ /\ Exists(vault, call.target)
        /\ \/ Install(NextCandidate(Created(Machine)))
           \/ Install(Reject(Machine, FileExists))
     \/ Install(Reject(Machine, StorageFailure))
  /\ UNCHANGED <<view, scheduler, timers, now, template, observing, calls, lastOp>>

\* the caller takes the result of its call
Return ==
  /\ lastOp # NoOp
  /\ lastOp' = NoOp
  /\ UNCHANGED <<view, scheduler, timers, currentSession, heap, now, vault, template, observing,
                 call, calls, materialised>>

\* ---------------------------------------------------------------- clock
Tick ==
  /\ Ready
  /\ now < MaxTime
  /\ now' = now + 1
  /\ UNCHANGED <<view, scheduler, timers, currentSession, heap, vault, template, observing, call,
                 calls, lastOp, materialised>>

\* ---------------------------------------------------------------- validation
UpperCaseLetters ==
  <<"A", "B", "C", "D", "E", "F", "G", "H", "I", "J", "K", "L", "M",
    "N", "O", "P", "Q", "R", "S", "T", "U", "V", "W", "X", "Y", "Z">>

LowerCaseLetters ==
  <<"a", "b", "c", "d", "e", "f", "g", "h", "i", "j", "k", "l", "m",
    "n", "o", "p", "q", "r", "s", "t", "u", "v", "w", "x", "y", "z">>

Digits == {"0", "1", "2", "3", "4", "5", "6", "7", "8", "9"}

\* String.prototype.toLowerCase(), on the letters A-Z
ToLowerCase(s) ==
  [k \in 1..Len(s) |->
     IF \E n \in 1..26 : UpperCaseLetters[n] = s[k]
       THEN LowerCaseLetters[CHOOSE n \in 1..26 : UpperCaseLetters[n] = s[k]]
       ELSE s[k]]

\* String.prototype.includes(part)
Includes(s, part) ==
  \E from \in 0..(Len(s) - Len(part)) : SubSeq(s, from + 1, from + Len(part)) = part

\* String.prototype.startsWith(prefix)
StartsWith(text, prefix) ==
  Len(text) >= Len(prefix) /\ SubSeq(text, 1, Len(prefix)) = prefix

\* the characters a regular expression's \s matches, of the model's alphabet
RegexSpace == {" ", "\t", "\n"}

\* String.prototype.split(/\s+/): the pieces between the runs of whitespace,
\* an empty piece in front of a leading run and behind a trailing one
Split(s) ==
  LET starts == {k \in 1..Len(s) : s[k] \notin RegexSpace /\ (k = 1 \/ s[k - 1] \in RegexSpace)}
      start(n) == CHOOSE k \in starts : Cardinality({j \in starts : j < k}) = n - 1
      end(k) == CHOOSE j \in k..Len(s) :
                  /\ \A q \in k..j : s[q] \notin RegexSpace
                  /\ (j = Len(s) \/ s[j + 1] \in RegexSpace)
      words == [n \in 1..Cardinality(starts) |-> SubSeq(s, start(n), end(start(n)))]
  IN  IF s = <<>> THEN << <<>> >>
      ELSE (IF s[1] \in RegexSpace THEN << <<>> >> ELSE <<>>)
           \o words
           \o (IF s[Len(s)] \in RegexSpace THEN << <<>> >> ELSE <<>>)

\* the characters a regular expression's \w matches
WordChar(c) ==
  \/ \E n \in 1..26 : UpperCaseLetters[n] = c \/ LowerCaseLetters[n] = c
  \/ c \in Digits
  \/ c = "_"

\* /\bword\b/ matches s at the 1-based position `at`
WordAt(s, word, at) ==
  /\ at >= 1
  /\ at + Len(word) - 1 <= Len(s)
  /\ SubSeq(s, at, at + Len(word) - 1) = word
  /\ (at = 1 \/ ~WordChar(s[at - 1]))
  /\ (at + Len(word) - 1 = Len(s) \/ ~WordChar(s[at + Len(word)]))

\* the line terminators a regular expression's `.` does not match
LineTerminator == {"\n", "\r"}

vagueMarkers ==
  << <<"s", "o", "m", "e", "t", "h", "i", "n", "g", " ", "l", "i", "k", "e">>,
     <<"k", "i", "n", "d", " ", "o", "f">>,
     <<"s", "o", "r", "t", " ", "o", "f">>,
     <<"b", "a", "s", "i", "c", "a", "l", "l", "y">>,
     <<"g", "e", "n", "e", "r", "a", "l", "l", "y">>,
     <<"u", "s", "u", "a", "l", "l", "y">>,
     <<"I", " ", "t", "h", "i", "n", "k", " ", "m", "a", "y", "b", "e">> >>

conjunctions ==
  << <<"a", "n", "d">>,
     <<"a", "l", "s", "o">>,
     <<"a", "d", "d", "i", "t", "i", "o", "n", "a", "l", "l", "y">>,
     <<"f", "u", "r", "t", "h", "e", "r", "m", "o", "r", "e">>,
     <<"m", "o", "r", "e", "o", "v", "e", "r">> >>

CopulaPattern ==
  << <<"i", "s">>,
     <<"a", "r", "e">>,
     <<"m", "e", "a", "n", "s">>,
     <<"i", "m", "p", "l", "i", "e", "s">> >>

TooBrief ==
  [ valid |-> FALSE,
    feedback |-> "Too brief. An atomic concept requires a substantive explanation.",
    suggestions |-> << "What is the core claim or idea?",
                       "Why does this matter?",
                       "How would you explain this to someone unfamiliar with the source?" >> ]

Hedging ==
  [ valid |-> FALSE,
    feedback |-> "The explanation contains hedging language. Be precise.",
    suggestions |-> << "Remove qualifiers and state the concept directly",
                       "If uncertain, identify what specifically is unclear" >> ]

RepeatsConcept ==
  [ valid |-> FALSE,
    feedback |-> "The explanation largely repeats the concept rather than explaining it.",
    suggestions |-> << "Explain what the concept means, not just what it is",
                       "Add context or implications" >> ]

MultipleConcepts ==
  [ valid |-> FALSE,
    feedback |-> "This may contain multiple concepts. Each atom should express one idea.",
    suggestions |-> << "Consider splitting into separate atoms",
                       "Identify the primary concept and extract secondary ideas" >> ]

\* the result without a `suggestions` property
Acceptable ==
  [ valid |-> TRUE,
    feedback |-> "Explanation is acceptable. Consider: does this stand alone without the source?",
    suggestions |-> <<>> ]

\* vagueMarkers.some((marker) => explanation.toLowerCase().includes(marker))
hasVagueness(explanation) ==
  \E n \in 1..Len(vagueMarkers) : Includes(ToLowerCase(explanation), vagueMarkers[n])

\* conceptWords.filter((word) => explanationWords.includes(word) && word.length > 3)
overlap(concept, explanation) ==
  LET conceptWords == Split(ToLowerCase(concept))
      explanationWords == Split(ToLowerCase(explanation))
  IN  SelectSeq(conceptWords,
                LAMBDA word : /\ \E k \in 1..Len(explanationWords) : explanationWords[k] = word
                              /\ Len(word) > 3)

\* the repetition test met at 70% already
repeatsConceptFrom70(concept, explanation) ==
  10 * Len(overlap(concept, explanation)) >= 7 * Len(Split(ToLowerCase(concept)))

\* the repetition test counting every concept word found, however short
repeatsConceptAnyLength(concept, explanation) ==
  LET conceptWords == Split(ToLowerCase(concept))
      explanationWords == Split(ToLowerCase(explanation))
  IN  10 * Len(SelectSeq(conceptWords,
                         LAMBDA word : \E k \in 1..Len(explanationWords) :
                                         explanationWords[k] = word))
        > 7 * Len(conceptWords)

\* overlap.length > conceptWords.length * 0.7
repeatsConcept(concept, explanation) ==
  10 * Len(overlap(concept, explanation)) > 7 * Len(Split(ToLowerCase(concept)))

\* new RegExp(`\\b${conj}\\b.*\\b(is|are|means|implies)\\b`, 'i').test(explanation);
\* the flag i is rendered by matching the lower-cased explanation
hasMultipleConcepts(explanation) ==
  LET lower == ToLowerCase(explanation)
  IN  \E n \in 1..Len(conjunctions), at \in 1..Len(lower) :
        /\ WordAt(lower, conjunctions[n], at)
        /\ \E v \in 1..Len(CopulaPattern), then \in (at + Len(conjunctions[n]))..Len(lower) :
             /\ WordAt(lower, CopulaPattern[v], then)
             /\ \A k \in (at + Len(conjunctions[n]))..(then - 1) :
                  lower[k] \notin LineTerminator

\* validateExplanation testing for several concepts before it tests for repetition
validateExplanationAtomicityFirst(candidate) ==
  LET explanation == candidate.explanation
      concept == candidate.concept
  IN  IF Len(explanation) < MinExplanation THEN TooBrief
      ELSE IF hasVagueness(explanation) THEN Hedging
      ELSE IF hasMultipleConcepts(explanation) THEN MultipleConcepts
      ELSE IF repeatsConcept(concept, explanation) THEN RepeatsConcept
      ELSE Acceptable

\* validateExplanation testing for hedging before it tests the length
validateExplanationHedgingFirst(candidate) ==
  LET explanation == candidate.explanation
      concept == candidate.concept
  IN  IF hasVagueness(explanation) THEN Hedging
      ELSE IF Len(explanation) < MinExplanation THEN TooBrief
      ELSE IF repeatsConcept(concept, explanation) THEN RepeatsConcept
      ELSE IF hasMultipleConcepts(explanation) THEN MultipleConcepts
      ELSE Acceptable

\* validateExplanation(candidate)
validateExplanation(candidate) ==
  LET explanation == candidate.explanation
      concept == candidate.concept
  IN  IF Len(explanation) < MinExplanation THEN TooBrief
      ELSE IF hasVagueness(explanation) THEN Hedging
      ELSE IF repeatsConcept(concept, explanation) THEN RepeatsConcept
      ELSE IF hasMultipleConcepts(explanation) THEN MultipleConcepts
      ELSE Acceptable

\* ---------------------------------------------------------------- critique
MinTitle == 10
MaxTitle == 80
MinEvidence == 30

TitleTooShort == "Title is too short to be descriptive."
TitleTooLong == "Title is too long. Aim for concise but complete."
NoEvidence == "No supporting evidence provided. Atoms should trace to sources."
SparseEvidence == "Evidence is sparse. Include enough context to verify the claim."
NoRelatedAtoms == "No related atoms linked. Consider connections to existing knowledge."
NoIssues == "No significant issues identified. Ready for creation."
BlankLine == "\n\n"

\* issues.push(issue) when its condition holds
Push(issues, condition, issue) == IF condition THEN Append(issues, issue) ELSE issues

\* issues.join(separator): the fragments with the separator between them
RECURSIVE Join(_, _)
Join(issues, separator) ==
  IF Len(issues) = 0 THEN <<>>
  ELSE IF Len(issues) = 1 THEN issues
  ELSE <<Head(issues), separator>> \o Join(Tail(issues), separator)

\* generateRuleBasedCritique returning at the first issue it finds
generateRuleBasedCritiqueFirstIssue(candidate) ==
  LET validation == validateExplanation(candidate)
  IN  IF Len(candidate.suggestedTitle) < MinTitle THEN <<TitleTooShort>>
      ELSE IF Len(candidate.suggestedTitle) > MaxTitle THEN <<TitleTooLong>>
      ELSE IF candidate.evidence = <<>> THEN <<NoEvidence>>
      ELSE IF Len(candidate.evidence) < MinEvidence THEN <<SparseEvidence>>
      ELSE IF ~validation.valid THEN <<validation.feedback>>
      ELSE IF Len(candidate.relatedAtoms) = 0 THEN <<NoRelatedAtoms>>
      ELSE <<NoIssues>>

\* generateRuleBasedCritique(candidate): the critique as the sequence of the
\* strings it is concatenated from
generateRuleBasedCritique(candidate) ==
  LET validation == validateExplanation(candidate)
      title == Push(Push(<<>>, Len(candidate.suggestedTitle) < MinTitle, TitleTooShort),
                    Len(candidate.suggestedTitle) > MaxTitle, TitleTooLong)
      evidence == IF candidate.evidence = <<>> THEN Append(title, NoEvidence)
                  ELSE Push(title, Len(candidate.evidence) < MinEvidence, SparseEvidence)
      explanation == Push(evidence, ~validation.valid, validation.feedback)
      issues == Push(explanation, Len(candidate.relatedAtoms) = 0, NoRelatedAtoms)
  IN  IF Len(issues) = 0 THEN <<NoIssues>> ELSE Join(issues, BlankLine)

\* generateCritique looking at the session it is called in
generateCritiqueInSession(candidate) ==
  IF HasSession THEN generateRuleBasedCritique(candidate) ELSE <<NoIssues>>

\* generateCritique(candidate)
generateCritique(candidate) == generateRuleBasedCritique(candidate)

\* ---------------------------------------------------------------- llm
Undefined == "undefined"
NoProvider == "null"
NoKey == ""
ProviderText == "(the provider's completion)"
ProviderError == "(the provider's error)"

LLMProviderType == {"smart-connections", "claude", "openrouter", "none"}

\* getLLMConfigFromSettings(settings)
getLLMConfigFromSettings(settings) ==
  [ provider |-> IF settings.llmProvider = Undefined THEN "none" ELSE settings.llmProvider,
    claudeApiKey |-> settings.claudeApiKey,
    openrouterApiKey |-> settings.openrouterApiKey ]

\* createLLMProvider(app, config): the provider made, named by its type, or null
createLLMProvider(config) ==
  CASE config.provider = "smart-connections" -> "smart-connections"
    [] config.provider = "claude" ->
         IF config.claudeApiKey = NoKey THEN NoProvider ELSE "claude"
    [] config.provider = "openrouter" ->
         IF config.openrouterApiKey = NoKey THEN NoProvider ELSE "openrouter"
    [] OTHER -> NoProvider

\* What a provider's calls do, in the order LLMService makes them: the outcome
\* of each provider.isAvailable() and of provider.complete(prompt).  A Claude or
\* OpenRouter provider exists only with a key and tests nothing but the key; the
\* Smart Connections check reads the objects of another plugin, so it may
\* answer either way or fail.  A completion returns text or throws.
ProviderOutcomes(provider) ==
  LET checks == IF provider = "smart-connections" THEN {"true", "false", "throws"}
                ELSE {"true"}
  IN  [ checks : [1..2 -> checks], completion : {"text", "throws"} ]

\* LLMService.isAvailable(), the provider's check doing `check`
isAvailable(provider, check) ==
  IF provider = NoProvider THEN [err |-> NoError, ret |-> FALSE]
  ELSE IF check = "throws" THEN [err |-> ProviderError, ret |-> FALSE]
  ELSE [err |-> NoError, ret |-> check = "true"]

\* the LLMResult of a failure
Failure(error, provider) ==
  [err |-> NoError, success |-> FALSE, content |-> "", error |-> error, provider |-> provider]

\* LLMService.complete(prompt), the provider's check doing `check` and its
\* completion doing `completion`; `err` is what the call throws
complete(provider, check, completion) ==
  IF provider = NoProvider THEN Failure("No LLM provider configured", "none")
  ELSE IF check = "throws"
    THEN [ err |-> ProviderError, success |-> FALSE, content |-> "", error |-> Undefined,
           provider |-> provider ]
  ELSE IF check = "false" THEN Failure("is not available", provider)
  ELSE IF completion = "throws" THEN Failure(ProviderError, provider)
  ELSE [ err |-> NoError, success |-> TRUE, content |-> ProviderText, error |-> Undefined,
         provider |-> provider ]

\* the promise of generateCritiqueAsync settled: `err` is what it rejects with
Critique(critique) == [err |-> NoError, critique |-> critique]
Rejected(err) == [err |-> err, critique |-> <<>>]

\* generateCritiqueAsync(candidate) under the settings, the provider doing `env`
generateCritiqueAsync(candidate, settings, env) ==
  LET provider == createLLMProvider(getLLMConfigFromSettings(settings))
      llmAvailable == isAvailable(provider, env.checks[1])
      result == complete(provider, env.checks[2], env.completion)
  IN  IF ~settings.useLLMCritique THEN Critique(generateRuleBasedCritique(candidate))
      ELSE IF llmAvailable.err # NoError THEN Rejected(llmAvailable.err)
      ELSE IF ~llmAvailable.ret THEN Critique(generateRuleBasedCritique(candidate))
      ELSE IF result.err # NoError THEN Rejected(result.err)
      ELSE IF result.success THEN Critique(<<result.content>>)
      ELSE Critique(generateRuleBasedCritique(candidate))

\* ---------------------------------------------------------------- scheduler
\* The NotificationScheduler and the timers of the window.  Here the clock
\* `now` counts minutes of local time, which is taken to be UTC, from the
\* midnight of day 0; a date is the number of its day.
MinutesPerDay == 1440

\* NotificationScheduler.CHECK_INTERVAL_MS, in minutes
CheckInterval == 5

\* the window behind the target in which the interval check notifies, in minutes
CheckWindow == 30

MsPerMinute == 60000

\* the longest delay scheduleNext gives to setTimeout, in milliseconds
maxTimeout == 2147483647

\* a timer handle that is null
NoHandle == 0

\* lastNotificationDate: ''
NoDate == -1

\* DEFAULT_SETTINGS, the settings that bear on the scheduler
DefaultSettings ==
  [ notificationEnabled |-> TRUE, notificationHour |-> 9, notificationMinute |-> 0,
    lastNotificationDate |-> NoDate ]

\* new NotificationScheduler(plugin, settings, onNotification)
NotificationScheduler(settings) ==
  [settings |-> settings, checkInterval |-> NoHandle, scheduledTimeout |-> NoHandle]

\* Date.getHours(), Date.getMinutes() and toISOString().split('T')[0]
getHours(t) == (t % MinutesPerDay) \div 60

getMinutes(t) == t % 60

today(t) == t \div MinutesPerDay

\* The scheduler's methods map the machine m = [scheduler, timers, fired] at
\* time t to the machine they leave; fired counts the calls of onNotification.

\* the handle window.setTimeout and window.setInterval give out
NewHandle(m) ==
  CHOOSE id \in 1..(Cardinality(m.timers) + 1) :
    /\ \A timer \in m.timers : timer.id # id
    /\ \A less \in 1..(id - 1) : \E timer \in m.timers : timer.id = less

\* window.clearTimeout(id), window.clearInterval(id)
clearTimer(m, id) == [m EXCEPT !.timers = {timer \in @ : timer.id # id}]

\* getMillisecondsUntilNext(), in minutes
getMillisecondsUntilNext(settings, t) ==
  LET target == (t - (t % MinutesPerDay)) + settings.notificationHour * 60
                + settings.notificationMinute
  IN  (IF target <= t THEN target + MinutesPerDay ELSE target) - t

scheduleNext(m, t) ==
  LET cleared == IF m.scheduler.scheduledTimeout # NoHandle
                 THEN clearTimer(m, m.scheduler.scheduledTimeout)
                 ELSE m
      msUntilNext == getMillisecondsUntilNext(m.scheduler.settings, t)
      id == NewHandle(cleared)
  IN  IF msUntilNext * MsPerMinute < maxTimeout
      THEN [cleared EXCEPT
              !.timers = @ \cup {[id |-> id, interval |-> FALSE, due |-> t + msUntilNext]},
              !.scheduler.scheduledTimeout = id]
      ELSE cleared

\* start(); the interval is registered with the plugin as well, which clears
\* it when the plugin is unloaded
start(m, t) ==
  IF ~m.scheduler.settings.notificationEnabled THEN m
  ELSE LET next == scheduleNext(m, t)
           id == NewHandle(next)
       IN  [next EXCEPT
              !.timers = @ \cup {[id |-> id, interval |-> TRUE, due |-> t + CheckInterval]},
              !.scheduler.checkInterval = id]

stop(m) ==
  LET timeout == IF m.scheduler.scheduledTimeout # NoHandle
                 THEN [clearTimer(m, m.scheduler.scheduledTimeout)
                         EXCEPT !.scheduler.scheduledTimeout = NoHandle]
                 ELSE m
  IN  IF timeout.scheduler.checkInterval # NoHandle
      THEN [clearTimer(timeout, timeout.scheduler.checkInterval)
              EXCEPT !.scheduler.checkInterval = NoHandle]
      ELSE timeout

updateSettings(m, settings, t) ==
  start(stop([m EXCEPT !.scheduler.settings = settings]), t)

\* fireNotification calling back whatever the date of the last notification
fireNotificationAnyDay(m, t) ==
  scheduleNext([m EXCEPT !.fired = @ + 1], t)

fireNotificationOnce(m, t) ==
  IF m.scheduler.settings.lastNotificationDate = today(t)
  THEN scheduleNext(m, t)
  ELSE [m EXCEPT !.fired = @ + 1]

fireNotification(m, t) ==
  IF m.scheduler.settings.lastNotificationDate = today(t)
  THEN scheduleNext(m, t)
  ELSE scheduleNext([m EXCEPT !.fired = @ + 1], t)

\* checkAndNotify calling back at any time of the day past the target
checkAndNotifyAllDay(m, t) ==
  LET settings == m.scheduler.settings
      isPastTarget ==
        \/ getHours(t) > settings.notificationHour
        \/ /\ getHours(t) = settings.notificationHour
           /\ getMinutes(t) >= settings.notificationMinute
  IN  IF ~settings.notificationEnabled THEN m
      ELSE IF settings.lastNotificationDate = today(t) THEN m
      ELSE IF isPastTarget THEN fireNotification(m, t)
      ELSE m

checkAndNotify(m, t) ==
  LET settings == m.scheduler.settings
      targetHour == settings.notificationHour
      targetMinute == settings.notificationMinute
      isPastTarget ==
        \/ getHours(t) > targetHour
        \/ getHours(t) = targetHour /\ getMinutes(t) >= targetMinute
      minutesSinceTarget == (getHours(t) - targetHour) * 60 + (getMinutes(t) - targetMinute)
      withinWindow == isPastTarget /\ minutesSinceTarget <= CheckWindow
  IN  IF ~settings.notificationEnabled THEN m
      ELSE IF settings.lastNotificationDate = today(t) THEN m
      ELSE IF withinWindow THEN fireNotification(m, t)
      ELSE m

\* the scheduler and the timers as they stand, no notification made yet
Scheduling == [scheduler |-> scheduler, timers |-> timers, fired |-> 0]

\* the most timers that are armed at a time, and the last minute of the clock
MaxTimers == 3

MaxClock == 2010

\* what a step of the scheduler leaves in lastOp
Done(op, m) == [op |-> op, err |-> NoError, ret |-> "(none)", ref |-> 0, fired |-> m.fired]

Start ==
  LET m == start(Scheduling, now)
  IN  /\ Cardinality(m.timers) <= MaxTimers
      /\ scheduler' = m.scheduler
      /\ timers' = m.timers
      /\ lastOp' = Done("start", m)
      /\ UNCHANGED <<view, currentSession, heap, now, vault, template, observing, call, calls,
                     materialised>>

Stop ==
  LET m == stop(Scheduling)
  IN  /\ scheduler' = m.scheduler
      /\ timers' = m.timers
      /\ lastOp' = Done("stop", m)
      /\ UNCHANGED <<view, currentSession, heap, now, vault, template, observing, call, calls,
                     materialised>>

UpdateSettings(settings) ==
  LET m == updateSettings(Scheduling, settings, now)
  IN  /\ Cardinality(m.timers) <= MaxTimers
      /\ scheduler' = m.scheduler
      /\ timers' = m.timers
      /\ lastOp' = Done("updateSettings", m)
      /\ UNCHANGED <<view, currentSession, heap, now, vault, template, observing, call, calls,
                     materialised>>

\* a timer that is due runs its callback: a timeout is spent, an interval is
\* due again after its period
RunTimer(id) ==
  LET timer == CHOOSE armed \in timers : armed.id = id
      spent == [Scheduling EXCEPT !.timers = @ \ {timer}]
      again == [spent EXCEPT !.timers = @ \cup {[timer EXCEPT !.due = @ + CheckInterval]}]
      m == IF timer.interval THEN checkAndNotify(again, now) ELSE fireNotification(spent, now)
  IN  /\ \E armed \in timers : armed.id = id
      /\ timer.due <= now
      /\ scheduler' = m.scheduler
      /\ timers' = m.timers
      /\ lastOp' = Done(IF timer.interval THEN "interval" ELSE "timeout", m)
      /\ UNCHANGED <<view, currentSession, heap, now, vault, template, observing, call, calls,
                     materialised>>

\* time passes when no timer is due
Elapse ==
  /\ \A timer \in timers : timer.due > now
  /\ now < MaxClock
  /\ now' = now + CheckInterval
  /\ lastOp' = NoOp
  /\ UNCHANGED <<view, scheduler, timers, currentSession, heap, vault, template, observing, call,
                 calls, materialised>>

\* the settings: at 9:00 and at 0:15, notified never, on day 0 or
\* on day 1
SchedulerSettings ==
  [ notificationEnabled : BOOLEAN, notificationHour : {9}, notificationMinute : {0},
    lastNotificationDate : {NoDate, 0, 1} ]
  \cup [ notificationEnabled : BOOLEAN, notificationHour : {0}, notificationMinute : {15},
         lastNotificationDate : {NoDate, 0, 1} ]

\* the times of day 0 at which the scheduler is made: 8:55, 9:10 and 23:55
Clocks == {535, 550, 1435}

InitScheduler ==
  /\ currentSession = NoSession
  /\ heap = [ref \in {} |-> <<>>]
  /\ now \in Clocks
  /\ call = IdleCall
  /\ calls = 0
  /\ lastOp = NoOp
  /\ materialised = FALSE
  /\ observing = TRUE
  /\ vault = [folder |-> FALSE, files |-> NoFiles]
  /\ template = NoTemplate
  /\ \E settings \in SchedulerSettings : scheduler = NotificationScheduler(settings)
  /\ timers = {}
  /\ view = NoView

\* the scheduler is started, stopped and given settings at any time, its
\* timers run when they are due
NextScheduler ==
  \/ Start
  \/ Stop
  \/ \E settings \in SchedulerSettings : UpdateSettings(settings)
  \/ \E id \in 1..MaxTimers : RunTimer(id)
  \/ Elapse

SpecScheduler == InitScheduler /\ [][NextScheduler]_vars

\* ---------------------------------------------------------------- specification
Service ==
  /\ currentSession = NoSession
  /\ heap = [ref \in {} |-> <<>>]
  /\ now = 0
  /\ call = IdleCall
  /\ calls = 0
  /\ lastOp = NoOp
  /\ materialised = FALSE
  /\ scheduler = NotificationScheduler(DefaultSettings)
  /\ timers = {}
  /\ view = NoView

EmptyVault == [folder |-> FALSE, files |-> NoFiles]

UsedVault ==
  [ folder |-> TRUE,
    files |-> [q \in {AtomPath(suggestTitle(DupConcept), NoSuffix)} |-> ExistingContent] ]

Init ==
  /\ Service
  /\ observing = FALSE
  /\ \/ vault = EmptyVault /\ template = AtomTemplate
     \/ vault = UsedVault /\ template = NoTemplate

SessionIdsOrNone == IF HasSession THEN SessionIds ELSE {}

\* Math.random() is taken not to repeat a suffix for two candidates of one
\* session made in the same millisecond.  Ids are only ever compared for
\* equality, so the least suffix that is free stands for all of them.
FreshRandoms ==
  LET free == {r \in 1..MaxCandidates : ~HasSession \/ generateId(r) \notin SessionIds}
  IN  {r \in free : \A q \in free : r <= q}

\* Source notes are only ever compared by title, so a session is started on
\* NoteA unless it replaces, during a createAtoms() call, the session that call
\* was made on.
NewNotes == {note \in Notes : note = "NoteA" \/ InFlight}

\* the service and its vault: every operation, the materialiser's steps, the
\* clock; what the operations return is not recorded
Next ==
  \/ \E sourceNote \in NewNotes : StartSession(sourceNote)
  \/ EndSession
  \/ AdvancePhase
  \/ \E phase \in AtomisationPhase : SetPhase(phase)
  \/ \E concept \in AtomConcepts, random \in FreshRandoms : AddCandidate(concept, random)
  \/ \E id \in SessionIdsOrNone, updates \in Approvals : UpdateCandidate(id, updates)
  \/ \E id \in SessionIdsOrNone : RemoveCandidate(id)
  \/ CreateAtoms
  \/ ResumeCreateFolder
  \/ ResumeBuildContent
  \/ ResumeReadTemplate
  \/ ResumeCreate
  \/ Tick

Spec == Init /\ [][Next]_vars

InitStore ==
  /\ Service
  /\ observing = TRUE
  /\ vault = EmptyVault
  /\ template = NoTemplate

\* the session state machine and the candidate store alone, with what each
\* operation returns or throws recorded: createAtoms() is called only while no
\* session exists
NextStore ==
  \/ \E sourceNote \in NewNotes : StartSession(sourceNote)
  \/ EndSession
  \/ AdvancePhase
  \/ \E phase \in AtomisationPhase : SetPhase(phase)
  \/ \E concept \in Concepts, random \in FreshRandoms : AddCandidate(concept, random)
  \/ \E id \in SessionIdsOrNone \cup {FakeId}, updates \in Patches :
       UpdateCandidate(id, updates)
  \/ \E id \in SessionIdsOrNone \cup {FakeId} : RemoveCandidate(id)
  \/ (~HasSession /\ CreateAtoms)
  \/ Return
  \/ Tick

SpecStore == InitStore /\ [][NextStore]_vars
\* ---------------------------------------------------------------- text
\* validateExplanation(candidate), as the critique phase calls it
ValidateExplanation(candidate) ==
  /\ Ready
  /\ lastOp' = [ op |-> "validateExplanation", err |-> NoError, ret |-> "result", ref |-> 0,
                 candidate |-> candidate, result |-> validateExplanation(candidate) ]
  /\ UNCHANGED <<view, scheduler, timers, currentSession, heap, now, vault, template, observing,
                 call, calls, materialised>>

\* concepts around the title limit, with and without surrounding whitespace
TitleConcepts ==
  { <<>>, OtherConcept, <<" ", "a", "b", " ">>,
    Repeat("x", TitleLimit), Repeat("x", TitleLimit + 1),
    <<" ">> \o Repeat("x", TitleLimit) \o <<" ">>, LongConcept }

UnitTests == <<"U", "n", "i", "t", " ", "t", "e", "s", "t", "s">>
TestingQuality == <<"T", "e", "s", "t", "i", "n", "g", " ", "q", "u", "a", "l", "i", "t", "y",
      " ", "a", "s", "s", "u", "r", "a", "n", "c", "e", " ", "v", "e", "r", "i", "f", "i",
      "c", "a", "t", "i", "o", "n">>

ExplanationHeads == { <<>>, <<"T", "e", "s", "t", "i", "n", "g", " ", "i", "s", " ">> }

ExplanationMiddles ==
  { vagueMarkers[n] : n \in 1..Len(vagueMarkers) }
  \cup { <<"K", "I", "N", "D", " ", "O", "F">>, <<"i", " ", "t", "h", "i", "n", "k", " ", "m",
      "a", "y", "b", "e">>, <<"p", "r", "e", "c", "i", "s", "e">>, <<"T", "e", "s", "t", "i",
      "n", "g", " ", "q", "u", "a", "l", "i", "t", "y", " ", "a", "s", "s", "u", "r", "a",
      "n", "c", "e", " ", "v", "e", "r", "i", "f", "i", "c", "a", "t", "i", "o", "n">> }

ExplanationTails == { <<>>, <<" ", "i", "m", "p", "o", "r", "t", "a", "n", "t", " ", "f", "o",
      "r", " ", "c", "o", "r", "r", "e", "c", "t", "n", "e", "s", "s">>, <<" ", "a", "n", "d",
      " ", "a", "l", "s", "o", " ", "d", "o", "c", "s", " ", "a", "r", "e", " ", "r", "e",
      "q", "u", "i", "r", "e", "d">>, <<"\n", "t", "e", "s", "t", "i", "n", "g", " ", "q",
      "u", "a", "l", "i", "t", "y", " ", "a", "s", "s", "u", "r", "a", "n", "c", "e", " ",
      "v", "e", "r", "i", "f", "i", "c", "a", "t", "i", "o", "n">> }

Explanations ==
  { head \o middle \o tail :
      head \in ExplanationHeads, middle \in ExplanationMiddles, tail \in ExplanationTails }

\* the candidates whose explanation the caller has validated
ExplainedCandidates ==
  { [ id |-> FakeId, concept |-> concept, explanation |-> explanation, evidence |-> <<>>,
      suggestedTitle |-> suggestTitle(concept), tags |-> <<>>, relatedAtoms |-> <<>>,
      critique |-> <<>>, approved |-> FALSE ] :
      concept \in {UnitTests, TestingQuality}, explanation \in Explanations }

\* concepts as the view adds them, trimmed: of three long words, on several
\* lines, of short words only, of ten words, and with a word thrice
DeepWork ==
  <<"D", "e", "e", "p", " ", "w", "o", "r", "k", " ", "w", "i", "n", "s">>

DeepWorkLines ==
  <<"d", "e", "e", "p", "	", "w", "o", "r", "k", "\n", "w", "i", "n", "s">>

ShortWords ==
  <<"t", "h", "e", " ", "c", "a", "t", " ", "s", "a", "t">>

TenWords ==
  <<"a", "a", "a", "a", " ", "b", "b", "b", "b", " ", "c", "c", "c", "c", " ", "d", "d", "d",
     "d", " ", "e", "e", "e", "e", " ", "f", "f", "f", "f", " ", "g", "g", "g", "g", " ",
     "h", "h", "h", "h", " ", "i", "i", "i", "i", " ", "j", "j", "j", "j">>

DoubledWords ==
  <<"t", "e", "s", "t", " ", "t", "e", "s", "t", " ", "t", "e", "s", "t", " ", "d", "o", "o",
     "r">>

RepetitionConcepts == {DeepWork, DeepWorkLines, ShortWords, TenWords, DoubledWords}

\* explanations of 20 characters and more, without hedging, that hold all, some
\* or none of a concept's words
RepetitionExplanations ==
  { <<"d", "e", "e", "p", " ", "w", "o", "r", "k", " ", "w", "i", "n", "s", " ", "t", "h",
      "e", " ", "l", "o", "n", "g", " ", "g", "a", "m", "e">>,
    <<"D", "e", "e", "p", " ", "w", "o", "r", "k", " ", "b", "e", "a", "t", "s", " ", "s",
      "h", "a", "l", "l", "o", "w", " ", "t", "a", "s", "k", "s">>,
    <<"D", "E", "E", "P", " ", "W", "O", "R", "K", " ", "W", "I", "N", "S", " ", "e", "v",
      "e", "r", "y", " ", "s", "i", "n", "g", "l", "e", " ", "t", "i", "m", "e">>,
    <<"D", "e", "e", "p", " ", "w", "o", "r", "k", ",", " ", "w", "i", "n", "s", " ", "o",
      "v", "e", "r", " ", "s", "h", "a", "l", "l", "o", "w", ".">>,
    <<"d", "e", "e", "p", "w", "o", "r", "k", " ", "w", "i", "n", "s", "o", "m", "e", " ",
      "w", "o", "r", "k", "s", "h", "o", "p", "s", " ", "d", "e", "e", "p", "l", "y">>,
    <<"t", "h", "e", " ", "c", "a", "t", " ", "s", "a", "t", " ", "o", "n", " ", "t", "h",
      "e", " ", "w", "a", "r", "m", " ", "m", "a", "t">>,
    <<"a", "a", "a", "a", " ", "b", "b", "b", "b", " ", "c", "c", "c", "c", " ", "d", "d",
      "d", "d", " ", "e", "e", "e", "e", " ", "f", "f", "f", "f", " ", "g", "g", "g",
      "g">>,
    <<"a", "a", "a", "a", " ", "b", "b", "b", "b", " ", "c", "c", "c", "c", " ", "d", "d",
      "d", "d", " ", "e", "e", "e", "e", " ", "f", "f", "f", "f", " ", "g", "g", "g",
      "g", " ", "h", "h", "h", "h">>,
    <<"a", " ", "t", "e", "s", "t", " ", "c", "h", "e", "c", "k", "s", " ", "o", "n", "e",
      " ", "b", "e", "h", "a", "v", "i", "o", "u", "r">> }

RepetitionCandidates ==
  { [ id |-> FakeId, concept |-> concept, explanation |-> explanation, evidence |-> <<>>,
      suggestedTitle |-> suggestTitle(concept), tags |-> <<>>, relatedAtoms |-> <<>>,
      critique |-> <<>>, approved |-> FALSE ] :
      concept \in RepetitionConcepts, explanation \in RepetitionExplanations }

\* generateCritique(candidate), as the critique phase calls it without a provider
GenerateCritique(candidate) ==
  /\ Ready
  /\ lastOp' = [ op |-> "generateCritique", err |-> NoError, ret |-> "critique", ref |-> 0,
                 candidate |-> candidate, result |-> generateCritique(candidate) ]
  /\ UNCHANGED <<view, scheduler, timers, currentSession, heap, now, vault, template, observing,
                 call, calls, materialised>>

PreciseExplanation ==
  <<"T", "e", "s", "t", "i", "n", "g", " ", "i", "s", " ", "p", "r", "e", "c", "i", "s", "e",
      " ", "i", "m", "p", "o", "r", "t", "a", "n", "t", " ", "f", "o", "r", " ", "c", "o",
      "r", "r", "e", "c", "t", "n", "e", "s", "s">>
HedgedExplanation ==
  <<"T", "e", "s", "t", "i", "n", "g", " ", "i", "s", " ", "k", "i", "n", "d", " ", "o", "f",
      " ", "i", "m", "p", "o", "r", "t", "a", "n", "t", " ", "f", "o", "r", " ", "c", "o",
      "r", "r", "e", "c", "t", "n", "e", "s", "s">>
RepeatingExplanation ==
  <<"U", "n", "i", "t", " ", "t", "e", "s", "t", "s", " ", "a", "r", "e", " ", "u", "n", "i",
      "t", " ", "t", "e", "s", "t", "s", ",", " ", "n", "o", "t", "h", "i", "n", "g", " ",
      "m", "o", "r", "e">>
BundledExplanation ==
  <<"T", "e", "s", "t", "i", "n", "g", " ", "i", "s", " ", "p", "r", "e", "c", "i", "s", "e",
      " ", "a", "n", "d", " ", "a", "l", "s", "o", " ", "d", "o", "c", "s", " ", "a", "r",
      "e", " ", "r", "e", "q", "u", "i", "r", "e", "d">>

\* titles and evidence on both sides of each limit the critique tests
CritiquedTitles ==
  { Repeat("x", n) : n \in {0, MinTitle - 1, MinTitle, MaxTitle, MaxTitle + 1} }

CritiquedEvidence == { Repeat("e", n) : n \in {0, 1, MinEvidence - 1, MinEvidence} }

\* the candidates the caller asks a critique of
CritiquedCandidates ==
  { [ id |-> FakeId, concept |-> UnitTests, explanation |-> explanation,
      evidence |-> evidence, suggestedTitle |-> title, tags |-> <<>>,
      relatedAtoms |-> related, critique |-> <<>>, approved |-> FALSE ] :
      explanation \in { <<>>, PreciseExplanation, HedgedExplanation, RepeatingExplanation,
                        BundledExplanation },
      evidence \in CritiquedEvidence, title \in CritiquedTitles,
      related \in { <<>>, <<"Existing atom">> } }

\* renderCritique: generateCritique(candidate) and validateExplanation(candidate)
\* on a candidate of the session
CritiqueCandidate(ref) ==
  /\ ref \in DOMAIN heap
  /\ GenerateCritique(heap[ref])

ValidateCandidate(ref) ==
  /\ ref \in DOMAIN heap
  /\ ValidateExplanation(heap[ref])

\* a session's identification and critique: sessions are started, looked up and
\* ended, concepts are added, explanations are validated, and what each call
\* returns is recorded
NextText ==
  \/ StartSession("NoteA")
  \/ EndSession
  \/ GetSession
  \/ \E concept \in TitleConcepts, random \in FreshRandoms : AddCandidate(concept, random)
  \/ \E candidate \in ExplainedCandidates \cup RepetitionCandidates :
       ValidateExplanation(candidate)
  \/ \E candidate \in CritiquedCandidates : GenerateCritique(candidate)
  \/ \E ref \in Refs : CritiqueCandidate(ref)
  \/ \E ref \in Refs : ValidateCandidate(ref)
  \/ Return

SpecText == InitStore /\ [][NextText]_vars
\* ---------------------------------------------------------------- view
\* The AtomisationView and the AtomisationService it owns.  A page is what
\* renderPhase leaves in contentEl: the phase it shows, the ids of the
\* candidates it has made a row of and the navigation buttons it has made.  A
\* handler can run while the page that holds its element is shown.
Page(page, session, h, nav) ==
  [ page |-> page,
    items |-> [k \in 1..Len(session.candidates) |-> h[session.candidates[k]].id],
    nav |-> nav ]

\* renderWelcome()
renderWelcome == [page |-> "welcome", items |-> <<>>, nav |-> {"Start Random Session"}]

renderIntroduction(session, h) ==
  [page |-> "introduction", items |-> <<>>, nav |-> {"Begin Identification"}]

\* renderIdentification making the button whatever the list holds
renderIdentificationAlwaysContinues(session, h) ==
  Page("identification", session, h, {"Continue to Explanations"})

renderIdentification(session, h) ==
  Page("identification", session, h,
       IF Len(session.candidates) > 0 THEN {"Continue to Explanations"} ELSE {})

renderExplanation(session, h) == Page("explanation", session, h, {"Submit for Critique"})

\* the candidates after renderCritique has stored the critique of each
critiqued(session, h) ==
  [ref \in DOMAIN h |->
     IF \E k \in 1..Len(session.candidates) : session.candidates[k] = ref
       THEN [h[ref] EXCEPT !.critique = generateCritique(h[ref])]
       ELSE h[ref]]

renderCritique(session, h) ==
  Page("critique", session, h, {"Refine Explanations", "Skip to Confirmation"})

renderRefinement(session, h) ==
  Page("refinement", session, h, {"Continue to Confirmation"})

\* session.candidates.filter((c) => c.approved).length
selectedCount(session, h) ==
  Len(SelectSeq(session.candidates, LAMBDA ref : h[ref].approved))

renderConfirmation(session, h) ==
  Page("confirmation", session, h,
       (IF selectedCount(session, h) > 0 THEN {"Create Atoms"} ELSE {}) \cup {"Cancel"})

\* renderCreation(session), up to its first await
renderCreation(session, h) == [page |-> "creation", items |-> <<>>, nav |-> {}]

\* renderPhase(phase) on the session getSession() returns
renderPhase(phase, session, h) ==
  IF session = NoSession THEN renderWelcome
  ELSE CASE phase = "introduction" -> renderIntroduction(session, h)
         [] phase = "identification" -> renderIdentification(session, h)
         [] phase = "explanation" -> renderExplanation(session, h)
         [] phase = "critique" -> renderCritique(session, h)
         [] phase = "refinement" -> renderRefinement(session, h)
         [] phase = "confirmation" -> renderConfirmation(session, h)
         [] phase = "creation" -> renderCreation(session, h)

\* onOpen()
OnOpen ==
  /\ view = NoView
  /\ view' = renderWelcome
  /\ UNCHANGED <<scheduler, timers, currentSession, heap, now, vault, template, observing,
                 call, calls, lastOp, materialised>>

\* onClose()
OnClose ==
  /\ view # NoView
  /\ currentSession' = NoSession
  /\ heap' = Reachable(heap, currentSession', call)
  /\ view' = NoView
  /\ UNCHANGED <<scheduler, timers, now, vault, template, observing, call, calls, lastOp,
                 materialised>>

\* startSession(file) of the view, which the plugin calls for the note it has
\* drawn: the session is replaced and its introduction shown
StartSessionInView(sourceNote) ==
  /\ view # NoView
  /\ currentSession' =
       [ sourceNote |-> sourceNote, candidates |-> <<>>, phase |-> "introduction",
         startedAt |-> now, completed |-> FALSE ]
  /\ heap' = Reachable(heap, currentSession', call)
  /\ materialised' = FALSE
  /\ view' = renderPhase("introduction", currentSession', heap')
  /\ UNCHANGED <<scheduler, timers, now, vault, template, observing, call, calls, lastOp>>

\* 'Begin Identification'
BeginIdentification ==
  /\ "Begin Identification" \in view.nav
  /\ HasSession
  /\ currentSession' = [currentSession EXCEPT !.phase = NextPhase(@)]
  /\ view' = renderPhase("identification", currentSession', heap)
  /\ UNCHANGED <<scheduler, timers, heap, now, vault, template, observing, call, calls,
                 lastOp, materialised>>

\* 'Add Concept' with `value` in the textarea
AddConcept(value, random) ==
  LET trimmed == Trim(value)
      candidate == [ id |-> generateId(random), concept |-> trimmed, explanation |-> <<>>,
                     evidence |-> <<>>, suggestedTitle |-> suggestTitle(trimmed),
                     tags |-> <<>>, relatedAtoms |-> <<>>, critique |-> <<>>,
                     approved |-> FALSE ]
  IN  /\ view.page = "identification"
      /\ HasSession
      /\ IF trimmed = <<>>
           THEN UNCHANGED <<currentSession, heap, view>>
           ELSE /\ \E ref \in Refs : ref \notin DOMAIN heap
                /\ heap' = [ref \in (DOMAIN heap) \cup {NewRef} |->
                              IF ref = NewRef THEN candidate ELSE heap[ref]]
                /\ currentSession' = [currentSession EXCEPT !.candidates = Append(@, NewRef)]
                /\ view' = renderPhase("identification", currentSession', heap')
      /\ UNCHANGED <<scheduler, timers, now, vault, template, observing, call, calls, lastOp,
                     materialised>>

\* the remove button of the k-th row
RemoveConcept(k) ==
  /\ view.page = "identification"
  /\ k \in 1..Len(view.items)
  /\ HasSession
  /\ LET index == FindIndex(view.items[k])
     IN  currentSession' = IF index = -1 THEN currentSession
                           ELSE [currentSession EXCEPT !.candidates = Splice(@, index)]
  /\ heap' = Reachable(heap, currentSession', call)
  /\ view' = renderPhase("identification", currentSession', heap')
  /\ UNCHANGED <<scheduler, timers, now, vault, template, observing, call, calls, lastOp,
                 materialised>>

\* 'Continue to Explanations'
ContinueToExplanations ==
  /\ "Continue to Explanations" \in view.nav
  /\ HasSession
  /\ currentSession' = [currentSession EXCEPT !.phase = NextPhase(@)]
  /\ view' = renderPhase("explanation", currentSession', heap)
  /\ UNCHANGED <<scheduler, timers, heap, now, vault, template, observing, call, calls,
                 lastOp, materialised>>

\* what the user enters for a candidate
EnoughEvidence == Repeat("e", MinEvidence)

FieldChanges == { [explanation |-> PreciseExplanation], [evidence |-> EnoughEvidence] }

\* a change of the explanation or the evidence input of the k-th card, in the
\* explanation and in the refinement phase
ChangeField(k, updates) ==
  /\ view.page \in {"explanation", "refinement"}
  /\ k \in 1..Len(view.items)
  /\ HasSession
  /\ LET index == FindIndex(view.items[k])
     IN  heap' = IF index = -1 THEN heap
                 ELSE [heap EXCEPT ![Candidates[index + 1]] = ObjectAssign(@, updates)]
  /\ UNCHANGED <<view, scheduler, timers, currentSession, now, vault, template, observing,
                 call, calls, lastOp, materialised>>

\* 'Submit for Critique'
SubmitForCritique ==
  /\ "Submit for Critique" \in view.nav
  /\ HasSession
  /\ currentSession' = [currentSession EXCEPT !.phase = NextPhase(@)]
  /\ heap' = critiqued(currentSession', heap)
  /\ view' = renderPhase("critique", currentSession', heap')
  /\ UNCHANGED <<scheduler, timers, now, vault, template, observing, call, calls, lastOp,
                 materialised>>

\* 'Refine Explanations'
RefineExplanations ==
  /\ "Refine Explanations" \in view.nav
  /\ HasSession
  /\ currentSession' = [currentSession EXCEPT !.phase = NextPhase(@)]
  /\ view' = renderPhase("refinement", currentSession', heap)
  /\ UNCHANGED <<scheduler, timers, heap, now, vault, template, observing, call, calls,
                 lastOp, materialised>>

\* 'Skip to Confirmation'
SkipToConfirmation ==
  /\ "Skip to Confirmation" \in view.nav
  /\ HasSession
  /\ currentSession' = [currentSession EXCEPT !.phase = "confirmation"]
  /\ view' = renderPhase("confirmation", currentSession', heap)
  /\ UNCHANGED <<scheduler, timers, heap, now, vault, template, observing, call, calls,
                 lastOp, materialised>>

\* 'Continue to Confirmation'
ContinueToConfirmation ==
  /\ "Continue to Confirmation" \in view.nav
  /\ HasSession
  /\ currentSession' = [currentSession EXCEPT !.phase = NextPhase(@)]
  /\ view' = renderPhase("confirmation", currentSession', heap)
  /\ UNCHANGED <<scheduler, timers, heap, now, vault, template, observing, call, calls,
                 lastOp, materialised>>

\* a change of the checkbox of the k-th card: the candidate is updated, the
\* page is not rendered again
ChangeApproved(k, checked) ==
  /\ view.page = "confirmation"
  /\ k \in 1..Len(view.items)
  /\ HasSession
  /\ LET index == FindIndex(view.items[k])
     IN  heap' = IF index = -1 THEN heap
                 ELSE [heap EXCEPT ![Candidates[index + 1]] =
                                     ObjectAssign(@, [approved |-> checked])]
  /\ UNCHANGED <<view, scheduler, timers, currentSession, now, vault, template, observing,
                 call, calls, lastOp, materialised>>

\* 'Create N Atoms', up to the first await of renderCreation
ClickCreate ==
  /\ "Create Atoms" \in view.nav
  /\ HasSession
  /\ currentSession' = [currentSession EXCEPT !.phase = NextPhase(@)]
  /\ view' = renderPhase("creation", currentSession', heap)
  /\ UNCHANGED <<scheduler, timers, heap, now, vault, template, observing, call, calls,
                 lastOp, materialised>>

\* 'Cancel'
Cancel ==
  /\ "Cancel" \in view.nav
  /\ currentSession' = NoSession
  /\ heap' = Reachable(heap, currentSession', call)
  /\ view' = renderWelcome
  /\ UNCHANGED <<scheduler, timers, now, vault, template, observing, call, calls, lastOp,
                 materialised>>

\* what the user types as a concept: a word, a blank, a word between blanks
TypedConcepts == {OtherConcept, <<" ">>, <<" ", "a", "b", " ">>}

\* the view from its construction: it is opened and closed, sessions are
\* started in it, and the user works the page it shows.  No page is ever
\* rendered with the 'Create N Atoms' button, so that ClickCreate and the
\* pages behind it are not among the steps.
NextView ==
  \/ OnOpen
  \/ OnClose
  \/ StartSessionInView("NoteA")
  \/ BeginIdentification
  \/ \E value \in TypedConcepts, random \in FreshRandoms : AddConcept(value, random)
  \/ \E k \in 1..MaxCandidates : RemoveConcept(k)
  \/ ContinueToExplanations
  \/ \E k \in 1..MaxCandidates, updates \in FieldChanges : ChangeField(k, updates)
  \/ SubmitForCritique
  \/ RefineExplanations
  \/ SkipToConfirmation
  \/ ContinueToConfirmation
  \/ \E k \in 1..MaxCandidates, checked \in BOOLEAN : ChangeApproved(k, checked)
  \/ Cancel

SpecView == InitStore /\ [][NextView]_vars

\* ---------------------------------------------------------------- critique by a provider
\* generateCritiqueAsync(candidate).  The call awaits the provider twice; the one
\* thing it reads of the service between the awaits is the source note's text
\* for the prompt, which the provider's outcome stands for.
GenerateCritiqueAsync(candidate, settings, env) ==
  LET settled == generateCritiqueAsync(candidate, settings, env)
  IN  /\ Ready
      /\ lastOp' = [ op |-> "generateCritiqueAsync", err |-> settled.err,
                     ret |-> IF settled.err = NoError THEN "critique" ELSE "(none)",
                     ref |-> 0, candidate |-> candidate, settings |-> settings, env |-> env,
                     result |-> settled.critique ]
      /\ UNCHANGED <<view, scheduler, timers, currentSession, heap, now, vault, template,
                     observing, call, calls, materialised>>

\* LLMService.complete(prompt), called on the service directly
CompletePrompt(settings, env) ==
  LET provider == createLLMProvider(getLLMConfigFromSettings(settings))
      result == complete(provider, env.checks[1], env.completion)
  IN  /\ Ready
      /\ lastOp' = [ op |-> "complete", err |-> result.err,
                     ret |-> IF result.err = NoError THEN "result" ELSE "(none)",
                     ref |-> 0, settings |-> settings, env |-> env, result |-> result ]
      /\ UNCHANGED <<view, scheduler, timers, currentSession, heap, now, vault, template,
                     observing, call, calls, materialised>>

\* the settings that bear on the critique
LLMSettings ==
  [ useLLMCritique : BOOLEAN, llmProvider : LLMProviderType \cup {Undefined},
    claudeApiKey : {NoKey, "key"}, openrouterApiKey : {NoKey, "key"} ]

\* a candidate with every issue and one with none
FlawedCandidate ==
  [ id |-> FakeId, concept |-> UnitTests, explanation |-> <<>>, evidence |-> <<>>,
    suggestedTitle |-> <<>>, tags |-> <<>>, relatedAtoms |-> <<>>, critique |-> <<>>,
    approved |-> FALSE ]

SoundCandidate ==
  [ id |-> FakeId, concept |-> UnitTests, explanation |-> PreciseExplanation,
    evidence |-> Repeat("e", MinEvidence), suggestedTitle |-> Repeat("x", MinTitle),
    tags |-> <<>>, relatedAtoms |-> <<"Existing atom">>, critique |-> <<>>,
    approved |-> FALSE ]

\* the critique phase with a provider: with and without a session, a critique
\* is asked for, or a completion directly, under every setting and with the
\* provider answering in every way it can
NextCritique ==
  \/ StartSession("NoteA")
  \/ EndSession
  \/ \E candidate \in {FlawedCandidate, SoundCandidate}, settings \in LLMSettings :
       \E env \in ProviderOutcomes(createLLMProvider(getLLMConfigFromSettings(settings))) :
         GenerateCritiqueAsync(candidate, settings, env)
  \/ \E settings \in LLMSettings :
       \E env \in ProviderOutcomes(createLLMProvider(getLLMConfigFromSettings(settings))) :
         CompletePrompt(settings, env)
  \/ Return

SpecCritique == InitStore /\ [][NextCritique]_vars
\* ---------------------------------------------------------------- the text of an atom
NoPath == ""
TemplatePath == "Templates/atom.md"

\* what vault.getAbstractFileByPath(atomTemplatePath) finds: nothing, a folder,
\* or a file with its text
NoFile == [kind |-> "null", content |-> <<>>]
AFolder == [kind |-> "folder", content |-> <<>>]
TemplateFile(content) == [kind |-> "file", content |-> content]

\* createAtomFile, lines 378-387: the content that is written
AtomText(candidate, session, atomTemplatePath, templateFile) ==
  LET content == Text(buildAtomContent(candidate, session))
  IN  IF atomTemplatePath # NoPath /\ templateFile.kind = "file"
        THEN applyTemplateToText(templateFile.content, candidate, content)
        ELSE content

\* createAtoms() on a session that has one approved candidate, followed through
\* its awaits to the end with no other call in between and the vault failing
\* nowhere: the folder is made, the file is created under the name the title
\* gives, the session is completed.  The settings' template path and what the
\* vault holds there are the caller's and the vault's.
CreateOneAtom(atomTemplatePath, templateFile) ==
  /\ Ready
  /\ ~InFlight
  /\ HasSession
  /\ calls < MaxCalls
  /\ Len(Approved(Candidates)) = 1
  /\ LET ref == Approved(Candidates)[1]
         candidate == heap[ref]
         sanitisedTitle == sanitiseTitle(candidate.suggestedTitle)
         filepath == AtomPath(sanitisedTitle, NoSuffix)
         target == IF Exists(vault, filepath) THEN AtomPath(sanitisedTitle, now)
                   ELSE filepath
         content == AtomText(candidate, currentSession, atomTemplatePath, templateFile)
     IN  /\ vault' = WithFile([vault EXCEPT !.folder = TRUE], target, content)
         /\ call' = [ IdleCall EXCEPT !.pc = "resolved", !.approved = <<ref>>, !.i = 1,
                                      !.createdFiles = <<target>>,
                                      !.sanitisedTitle = sanitisedTitle,
                                      !.content = content, !.target = target,
                                      !.note = currentSession.sourceNote,
                                      !.createdFor = <<ref>>,
                                      !.overwrote = Exists(vault, target) ]
         /\ lastOp' = [ op |-> "createAtoms", err |-> NoError, ret |-> "files", ref |-> 0,
                        atomTemplatePath |-> atomTemplatePath,
                        templateFile |-> templateFile ]
  /\ currentSession' = [currentSession EXCEPT !.completed = TRUE]
  /\ calls' = calls + 1
  /\ materialised' = TRUE
  /\ UNCHANGED <<view, scheduler, timers, heap, now, template, observing>>

HostileTitle ==
  <<"a", "\\", "b", "/", "c", ":", "d", "*", "e", "?", "f", "\"", "g", "<", "h", ">", "i", "|",
      "j">>
PaddedTitle == <<" ", "a", "/", "b", ":", " ", "c", "\t">>
DollarTitle == <<"u", "s", "e", " ", "$", "&">>
NestedTitle == <<"{", "{", "c", "o", "n", "t", "e", "n", "t", "}", "}">>
PlainTitle == <<"A", "t", "o", "m">>
QuotedTitle == <<"\"", " ", "a", "?", " ", "\"">>

AtomTitles == {PlainTitle, PaddedTitle, QuotedTitle, HostileTitle, DollarTitle, NestedTitle}

AtomExplanations ==
  { <<"W", "h", "y">>, <<"c", "o", "s", "t", " ", "$", "$", "5">>,
    <<"s", "e", "e", " ", "{", "{", "e", "v", "i", "d", "e", "n", "c", "e", "}", "}">> }

\* an approved candidate as updateCandidate can have left it
AtomCandidates ==
  { [ id |-> [t |-> 0, r |-> 1], concept |-> <<"c">>, explanation |-> explanation,
      evidence |-> evidence, suggestedTitle |-> title, tags |-> tags,
      relatedAtoms |-> related, critique |-> <<>>, approved |-> TRUE ] :
      explanation \in AtomExplanations, evidence \in { <<>>, <<"E", "v">> },
      title \in AtomTitles,
      tags \in { <<>>, << <<"t">> >>, << <<"t">>, <<"u">> >> },
      related \in { <<>>, << <<"R">> >>, << <<"R">>, <<"S">> >> } }

\* the texts of the template file
TemplateTexts ==
  { <<>>,
    <<"p", "l", "a", "i", "n">>,
    <<"#", " ", "{", "{", "t", "i", "t", "l", "e", "}", "}", "\n", "{", "{", "c", "o", "n",
      "t", "e", "n", "t", "}", "}">>,
    <<"{", "{", "t", "i", "t", "l", "e", "}", "}", "|", "{", "{", "c", "o", "n", "c", "e", "p",
      "t", "}", "}", "|", "{", "{", "e", "x", "p", "l", "a", "n", "a", "t", "i", "o", "n",
      "}", "}", "|", "{", "{", "e", "v", "i", "d", "e", "n", "c", "e", "}", "}", "|", "{",
      "{", "t", "a", "g", "s", "}", "}", "|", "{", "{", "d", "a", "t", "e", "}", "}">>,
    <<"{", "{", "t", "a", "g", "s", "}", "}", "{", "{", "t", "a", "g", "s", "}", "}", " ", "{",
      "{", "t", "i", "t", "l", "e", "}", "}">> }

\* a session in its creation phase with one approved candidate; the vault is
\* empty or holds a file under the name the candidate's title gives
InitAtom ==
  /\ currentSession = [ sourceNote |-> "NoteA", phase |-> "creation", candidates |-> <<1>>,
                        startedAt |-> 0, completed |-> FALSE ]
  /\ heap \in { [ref \in {1} |-> candidate] : candidate \in AtomCandidates }
  /\ now = 0
  /\ call = IdleCall
  /\ calls = 0
  /\ lastOp = NoOp
  /\ materialised = FALSE
  /\ observing = TRUE
  /\ template = NoTemplate
  /\ scheduler = NotificationScheduler(DefaultSettings)
  /\ timers = {}
  /\ view = NoView
  /\ vault \in { EmptyVault,
                  [ folder |-> TRUE,
                    files |-> [ q \in {AtomPath(sanitiseTitle(heap[1].suggestedTitle),
                                                NoSuffix)} |-> ExistingContent ] ] }

\* the creation phase: the one approved candidate is written, with every
\* setting of the template path and everything the vault may hold there
NextAtom ==
  \/ \E atomTemplatePath \in {NoPath, TemplatePath},
        templateFile \in {NoFile, AFolder} \cup {TemplateFile(t) : t \in TemplateTexts} :
       CreateOneAtom(atomTemplatePath, templateFile)
  \/ Return

SpecAtom == InitAtom /\ [][NextAtom]_vars
\* ---------------------------------------------------------------- quarry
\* QuarryService works on the notes of the vault.  A note's path and content
\* are texts; what the metadata cache (or the Dataview index) holds of a note
\* is the one field the service looks at, or nothing.
NoCache == [cached |-> FALSE, field |-> <<>>, value |-> <<>>]

\* a cache entry whose frontmatter holds `field: value`
Frontmatter(field, value) == [cached |-> TRUE, field |-> field, value |-> value]

\* a cache entry of a note without frontmatter
NoFrontmatter == [cached |-> TRUE, field |-> <<>>, value |-> <<>>]

\* vault.getMarkdownFiles(), in the order the vault lists them
RECURSIVE getMarkdownFiles(_)
getMarkdownFiles(files) ==
  IF files = {} THEN <<>>
  ELSE LET first == CHOOSE p \in files : \A q \in files : Len(p) <= Len(q)
       IN  <<first>> \o getMarkdownFiles(files \ {first})

\* quarryFolders.some(folder => file.path.startsWith(folder + '/'))
inQuarryFolder(path, quarryFolders) ==
  \E k \in 1..Len(quarryFolders) : StartsWith(path, quarryFolders[k] \o <<"/">>)

\* cache.frontmatter?.[migrationField] === quarryValue
checkQuarryStatus(cache, settings) ==
  /\ cache.field = settings.migrationField
  /\ cache.field # <<>>
  /\ cache.value = settings.quarryValue

\* buildQuarryNote(file): the note as a list of one, or of none when
\* vault.cachedRead(file) rejects
buildQuarryNote(path, v, unreadable, settings) ==
  IF path \in unreadable \/ path \notin DOMAIN v.files THEN <<>>
  ELSE << [file |-> path, content |-> v.files[path], migrationStatus |-> settings.quarryValue] >>

RECURSIVE Flatten(_)
Flatten(lists) ==
  IF lists = <<>> THEN <<>> ELSE Head(lists) \o Flatten(Tail(lists))

getQuarryNotesFallbackAnyFolder(v, metadataCache, unreadable, settings) ==
  LET files == getMarkdownFiles(DOMAIN v.files)
      note(path) ==
        IF ~metadataCache[path].cached THEN <<>>
        ELSE IF ~checkQuarryStatus(metadataCache[path], settings) THEN <<>>
        ELSE buildQuarryNote(path, v, unreadable, settings)
  IN  Flatten([k \in 1..Len(files) |-> note(files[k])])

\* getQuarryNotesFallback(): every markdown file in turn
getQuarryNotesFallback(v, metadataCache, unreadable, settings) ==
  LET files == getMarkdownFiles(DOMAIN v.files)
      note(path) ==
        IF ~inQuarryFolder(path, settings.quarryFolders) THEN <<>>
        ELSE IF ~metadataCache[path].cached THEN <<>>
        ELSE IF ~checkQuarryStatus(metadataCache[path], settings) THEN <<>>
        ELSE buildQuarryNote(path, v, unreadable, settings)
  IN  Flatten([k \in 1..Len(files) |-> note(files[k])])

\* getQuarryNotesDataview(dv): every configured folder in turn; a folder whose
\* query throws is passed over, a page whose path is no file of the vault too
getQuarryNotesDataview(v, dv, unreadable, settings) ==
  LET indexed == getMarkdownFiles(DOMAIN dv.pages)
      page(path, folder) ==
        IF ~StartsWith(path, folder \o <<"/">>) THEN <<>>
        ELSE IF ~checkQuarryStatus(dv.pages[path], settings) THEN <<>>
        ELSE buildQuarryNote(path, v, unreadable, settings)
      pages(folder) ==
        IF folder \in dv.throws THEN <<>>
        ELSE Flatten([k \in 1..Len(indexed) |-> page(indexed[k], folder)])
  IN  Flatten([k \in 1..Len(settings.quarryFolders) |-> pages(settings.quarryFolders[k])])

\* getAllQuarryNotes(): by Dataview when the plugin offers its api
getAllQuarryNotes(v, env, settings) ==
  IF env.dataview.installed
  THEN getQuarryNotesDataview(v, env.dataview, env.unreadable, settings)
  ELSE getQuarryNotesFallback(v, env.metadataCache, env.unreadable, settings)

\* the note getRandomQuarryNote() returns when there is none
NoNote == [file |-> <<>>, content |-> <<>>, migrationStatus |-> <<>>]

\* getRandomQuarryNote(): `random` is Math.floor(Math.random() * notes.length)
getRandomQuarryNote(notes, random) ==
  IF Len(notes) = 0 THEN NoNote ELSE notes[random + 1]

\* The length of the match of new RegExp(`${field}::\\s*${value}`) that starts
\* at position i of `text`, 0 when there is none.  Field and value are taken
\* to hold no character the regular expression reads as syntax, and the value
\* not to begin with whitespace, so \s* takes the whole run of whitespace.
MarkerWidth(text, i, field, value) ==
  LET head == field \o <<":", ":">>
      after == i + Len(head)
      spaces == CHOOSE n \in 0..(Len(text) - after + 1) :
                  /\ \A j \in after..(after + n - 1) : text[j] \in RegexSpace
                  /\ (after + n > Len(text) \/ text[after + n] \notin RegexSpace)
      last == after + spaces + Len(value) - 1
  IN  IF /\ after - 1 <= Len(text)
         /\ SubSeq(text, i, after - 1) = head
         /\ last <= Len(text)
         /\ SubSeq(text, after + spaces, last) = value
      THEN last - i + 1
      ELSE 0

\* where the matches of the global regular expression start: the leftmost
\* first, the search resuming behind each match
RECURSIVE MatchesFrom(_, _, _, _)
MatchesFrom(text, from, field, value) ==
  LET found == {i \in from..Len(text) : MarkerWidth(text, i, field, value) > 0}
  IN  IF found = {} THEN {}
      ELSE LET at == CHOOSE i \in found : \A j \in found : i <= j
           IN  {at} \cup MatchesFrom(text, at + MarkerWidth(text, at, field, value),
                                     field, value)

\* the status markAsAtomised writes, behind the field's name
Atomised ==
  <<":", ":", " ", "a", "t", "o", "m", "i", "s", "e", "d">>

\* content.replace(pattern, `${migrationField}:: atomised`)
newContent(content, settings) ==
  LET field == settings.migrationField
      value == settings.quarryValue
      starts == MatchesFrom(content, 1, field, value)
      width == [i \in starts |-> MarkerWidth(content, i, field, value)]
  IN  Rewrite(content, 1, starts, width,
              [i \in starts |-> GetSubstitution(SubSeq(content, i, i + width[i] - 1),
                                                content, i, field \o Atomised)])

\* the most notes that are found at once
MaxNotes == 2

\* the longest content a note is given
MaxText == 38

\* getRandomQuarryNote(), with what getAllQuarryNotes() found recorded
GetRandomQuarryNote(settings, env, random) ==
  LET notes == getAllQuarryNotes(vault, env, settings)
      note == getRandomQuarryNote(notes, random)
  IN  /\ Ready
      /\ random < Len(notes) \/ (random = 0 /\ notes = <<>>)
      /\ lastOp' = [ op |-> "getRandomQuarryNote", err |-> NoError,
                     ret |-> IF note = NoNote THEN "null" ELSE "note", ref |-> 0,
                     settings |-> settings, env |-> env, notes |-> notes, note |-> note ]
      /\ UNCHANGED <<view, scheduler, timers, currentSession, heap, now, vault, template,
                     observing, call, calls, materialised>>

\* markAsAtomised(file): vault.read and vault.modify reject for a file that
\* is gone, and modify when the vault cannot write
MarkAsAtomised(file, settings, writable) ==
  LET exists == file \in DOMAIN vault.files
      content == vault.files[file]
      new == newContent(content, settings)
      modifies == exists /\ new # content
      rejects == ~exists \/ (modifies /\ ~writable)
  IN  /\ Ready
      /\ modifies \/ writable
      /\ modifies => Len(new) <= MaxText
      /\ vault' = IF modifies /\ writable
                  THEN [vault EXCEPT !.files = [@ EXCEPT ![file] = new]]
                  ELSE vault
      /\ lastOp' = [ op |-> "markAsAtomised",
                     err |-> IF rejects THEN StorageFailure ELSE NoError,
                     ret |-> "(none)", ref |-> 0, settings |-> settings, file |-> file,
                     content |-> IF exists THEN content ELSE <<>>,
                     modified |-> modifies /\ writable ]
      /\ UNCHANGED <<view, scheduler, timers, currentSession, heap, now, template, observing,
                     call, calls, materialised>>

\* the folders and notes of the vault
FleetingFolder ==
  <<"F", "l", "e", "e", "t", "i", "n", "g">>

SourceFolder ==
  <<"S", "o", "u", "r", "c", "e">>

FleetingNote ==
  <<"F", "l", "e", "e", "t", "i", "n", "g", "/", "a", ".", "m", "d">>

LookalikeNote ==
  <<"F", "l", "e", "e", "t", "i", "n", "g", "2", "/", "b", ".", "m", "d">>

NestedNote ==
  <<"S", "o", "u", "r", "c", "e", "/", "s", "u", "b", "/", "c", ".", "m", "d">>

OutsideNote ==
  <<"A", "t", "o", "m", "s", "/", "d", ".", "m", "d">>

GoneNote ==
  <<"F", "l", "e", "e", "t", "i", "n", "g", "/", "g", "o", "n", "e", ".", "m", "d">>

\* the fields and their values
Migration ==
  <<"M", "i", "g", "r", "a", "t", "i", "o", "n">>

Status ==
  <<"S", "t", "a", "t", "u", "s">>

Quarry ==
  <<"q", "u", "a", "r", "r", "y">>

Pending ==
  <<"p", "e", "n", "d", "i", "n", "g">>

Atom ==
  <<"a", "t", "o", "m">>

AtomisedValue ==
  <<"a", "t", "o", "m", "i", "s", "e", "d">>

\* the contents of the note that is marked
MarkedContent ==
  <<"#", " ", "N", "o", "t", "e", "\n", "\n", "M", "i", "g", "r", "a", "t", "i", "o", "n",
     ":", ":", " ", "q", "u", "a", "r", "r", "y", "\n", "\n", "T", "e", "x", "t">>

TwiceMarkedContent ==
  <<"M", "i", "g", "r", "a", "t", "i", "o", "n", ":", ":", " ", "q", "u", "a", "r", "r", "y",
     "\n", "M", "i", "g", "r", "a", "t", "i", "o", "n", ":", ":", " ", "q", "u", "a", "r",
     "r", "y">>

UnmarkedContent ==
  <<"#", " ", "N", "o", "t", "e", "\n", "\n", "T", "e", "x", "t">>

TightContent ==
  <<"M", "i", "g", "r", "a", "t", "i", "o", "n", ":", ":", "q", "u", "a", "r", "r", "y">>

LooseContent ==
  <<"M", "i", "g", "r", "a", "t", "i", "o", "n", ":", ":", " ", " ", "\n", "q", "u", "a",
     "r", "r", "y", "\n">>

AtomContent ==
  <<"M", "i", "g", "r", "a", "t", "i", "o", "n", ":", ":", " ", "a", "t", "o", "m">>

PendingContent ==
  <<"S", "t", "a", "t", "u", "s", ":", ":", " ", "p", "e", "n", "d", "i", "n", "g", "\n",
     "M", "i", "g", "r", "a", "t", "i", "o", "n", ":", ":", " ", "q", "u", "a", "r", "r",
     "y">>

DoneContent ==
  <<"M", "i", "g", "r", "a", "t", "i", "o", "n", ":", ":", " ", "a", "t", "o", "m", "i", "s",
     "e", "d">>

\* a note whose status stands in its frontmatter
FrontmatterContent ==
  <<"-", "-", "-", "\n", "M", "i", "g", "r", "a", "t", "i", "o", "n", ":", " ", "q", "u",
     "a", "r", "r", "y", "\n", "-", "-", "-", "\n", "T", "e", "x", "t">>

NoteContents ==
  { MarkedContent, TwiceMarkedContent, UnmarkedContent, TightContent, LooseContent,
    AtomContent, PendingContent, DoneContent, FrontmatterContent }

QuarrySettings ==
  [ quarryFolders : {<<>>, <<FleetingFolder>>, <<FleetingFolder, SourceFolder>>},
    migrationField : {Migration},
    quarryValue : {Quarry} ]
  \cup [ quarryFolders : {<<FleetingFolder, SourceFolder>>},
         migrationField : {Migration, Status},
         quarryValue : {Pending, Atom} ]

QuarryNotes == {FleetingNote, LookalikeNote, NestedNote, OutsideNote}

\* what the metadata cache can hold of the four notes
MetadataCaches ==
  { cache \in [QuarryNotes -> {NoCache, NoFrontmatter, Frontmatter(Migration, Quarry),
                               Frontmatter(Migration, AtomisedValue)}] :
      /\ cache[LookalikeNote] \in {NoCache, Frontmatter(Migration, Quarry)}
      /\ cache[NestedNote] \in {Frontmatter(Migration, Quarry),
                                Frontmatter(Migration, AtomisedValue)}
      /\ cache[OutsideNote] = Frontmatter(Migration, Quarry) }

NoDataview == [installed |-> FALSE, pages |-> <<>>, throws |-> {}]

\* Dataview with its index of the notes: inline fields count, a note may have
\* gone since, a folder may be none
Dataviews ==
  { NoDataview }
  \cup [ installed : {TRUE},
         pages : { [p \in {FleetingNote, NestedNote, OutsideNote}
                     |-> Frontmatter(Migration, Quarry)],
                   [p \in {GoneNote, NestedNote} |-> Frontmatter(Migration, Quarry)],
                   [p \in {FleetingNote} |-> Frontmatter(Migration, AtomisedValue)] },
         throws : {{}, {SourceFolder}} ]

QuarryEnvs ==
  [ metadataCache : MetadataCaches, dataview : Dataviews,
    unreadable : {{}, {FleetingNote}} ]

InitQuarry ==
  /\ Service
  /\ observing = TRUE
  /\ template = NoTemplate
  /\ \E content \in NoteContents :
       vault = [ folder |-> FALSE,
                 files |-> [p \in QuarryNotes |->
                              IF p = FleetingNote THEN content ELSE UnmarkedContent] ]

\* a note is drawn from the quarry and notes are marked, under every setting
\* and with the vault, the cache and Dataview in every condition
NextQuarry ==
  \/ \E settings \in QuarrySettings, env \in QuarryEnvs, random \in 0..(MaxNotes - 1) :
       GetRandomQuarryNote(settings, env, random)
  \/ \E file \in {FleetingNote, NestedNote, GoneNote}, settings \in QuarrySettings,
        writable \in BOOLEAN :
       MarkAsAtomised(file, settings, writable)
  \/ Return

SpecQuarry == InitQuarry /\ [][NextQuarry]_vars

\* isQuarryNote(file)
isQuarryNote(file, v, env, settings) ==
  LET notes == getAllQuarryNotes(v, env, settings)
  IN  \E k \in 1..Len(notes) : notes[k].file = file

\* What the metadata cache and the Dataview index hold of a note once they
\* have read its content.  A line starts at the head of the text and behind
\* every line feed.
LineStarts(text) == {i \in 1..Len(text) : i = 1 \/ text[i - 1] = "\n"}

LineAt(text, i) ==
  LET ends == {j \in i..Len(text) : text[j] = "\n"}
  IN  SubSeq(text, i, IF ends = {} THEN Len(text)
                      ELSE (CHOOSE j \in ends : \A q \in ends : j <= q) - 1)

Fence == <<"-", "-", "-">>

\* where the line that closes the frontmatter block starts, 0 without a block
FrontmatterEnd(content) ==
  LET closes == {i \in LineStarts(content) : i > 1 /\ LineAt(content, i) = Fence}
  IN  IF LineAt(content, 1) = Fence /\ closes # {}
      THEN CHOOSE i \in closes : \A q \in closes : i <= q
      ELSE 0

\* the value behind `mark` on the first of the lines that start with it
FieldOn(content, starts, field, mark) ==
  LET at == CHOOSE i \in starts : \A q \in starts : i <= q
      line == LineAt(content, at)
  IN  Frontmatter(field, Trim(SubSeq(line, Len(mark) + 1, Len(line))))

\* metadataCache.getFileCache(file).frontmatter, read for `field`: the line
\* `field: value` of the block between the fences
frontmatterOf(content, field) ==
  LET mark == field \o <<":", " ">>
      keys == {i \in LineStarts(content) :
                 /\ 1 < i
                 /\ i < FrontmatterEnd(content)
                 /\ StartsWith(LineAt(content, i), mark)}
  IN  IF keys = {} THEN NoFrontmatter ELSE FieldOn(content, keys, field, mark)

\* a field that Dataview holds as a list, for being given more than once
ListValue == <<"(", "l", "i", "s", "t", ")">>

\* the page Dataview has of the note, read for `field`: the frontmatter's
\* key, or the inline field `field:: value` on a line of the body
pageOf(content, field) ==
  LET mark == field \o <<":", ":">>
      inline == {i \in LineStarts(content) :
                   /\ i > FrontmatterEnd(content)
                   /\ StartsWith(LineAt(content, i), mark)}
  IN  IF frontmatterOf(content, field) # NoFrontmatter THEN frontmatterOf(content, field)
      ELSE IF inline = {} THEN NoFrontmatter
      ELSE IF Cardinality(inline) > 1 THEN Frontmatter(field, ListValue)
      ELSE FieldOn(content, inline, field, mark)

\* the cache and the index in step with the vault, every note readable
InStep(v, settings, dataview) ==
  [ metadataCache |->
      [p \in DOMAIN v.files |-> frontmatterOf(v.files[p], settings.migrationField)],
    dataview |->
      IF dataview
      THEN [ installed |-> TRUE,
             pages |-> [p \in DOMAIN v.files |-> pageOf(v.files[p], settings.migrationField)],
             throws |-> {} ]
      ELSE NoDataview,
    unreadable |-> {} ]

\* ================================================================ claims
AllConcepts == Concepts \cup AtomConcepts

Range(seq) == {seq[k] : k \in 1..Len(seq)}

\* the place of a phase in the order the specification fixes
PhaseRank(phase) ==
  CASE phase = "introduction" -> 1
    [] phase = "identification" -> 2
    [] phase = "explanation" -> 3
    [] phase = "critique" -> 4
    [] phase = "refinement" -> 5
    [] phase = "confirmation" -> 6
    [] phase = "creation" -> 7
    [] phase = "complete" -> 8

\* C1: advancePhase stores and returns the immediate successor of the current
\* phase in the fixed order (complete stays complete), whatever phase earlier
\* calls left, so that 7 calls from introduction (rank 1) reach complete (rank 8);
\* it changes nothing but the phase.
C1_AdvancePhaseSuccessor ==
  [][ (AdvancePhase /\ HasSession) =>
        /\ PhaseRank(currentSession'.phase) =
             (IF PhaseRank(currentSession.phase) < 8
                THEN PhaseRank(currentSession.phase) + 1 ELSE 8)
        /\ lastOp'.op = "advancePhase" /\ lastOp'.err = NoError
        /\ lastOp'.ret = currentSession'.phase
        /\ currentSession' = [currentSession EXCEPT !.phase = currentSession'.phase]
        /\ UNCHANGED <<scheduler, timers, heap, vault, template, observing, call, calls,
                       materialised>> ]_vars

\* advancePhase has been called at complete's predecessor or at complete itself
C1_Witness ==
  /\ HasSession
  /\ lastOp.op = "advancePhase"
  /\ lastOp.ret = "complete"
  /\ currentSession.phase = "complete"

\* C2: a session has completed = true only if a createAtoms call made on that
\* session has processed all of its approved candidates without error.
C2_CompletedOnlyByOwnCreateAtoms ==
  (HasSession /\ currentSession.completed) => materialised

\* the default content of a file: the file itself, or what a template's
\* {{content}} placeholder received
DefaultPart(content) ==
  IF \E k \in 1..Len(content) : content[k].k = "content"
    THEN (CHOOSE line \in Range(content) : line.k = "content").v
    ELSE content

\* the source note a file's metadata block refers back to
BackReference(content) ==
  LET lines == DefaultPart(content)
  IN  IF \E k \in 1..Len(lines) : lines[k].k = "source"
        THEN (CHOOSE line \in Range(lines) : line.k = "source").v
        ELSE NoSource

\* C3: no cross-session race: a createAtoms call during which the session was
\* replaced or ended does not set the completed flag of the replacement session,
\* gives every file it creates the back-reference to the source note of the
\* session it was called on, and does not fail because the session changed.
C3_NoCrossSessionRace ==
  /\ ~call.touched
  /\ call.error # TypeError
  /\ \A k \in 1..Len(call.createdFiles) :
       BackReference(vault.files[call.createdFiles[k]]) = call.note

\* C4: no two candidates of the session have the same id.
C4_UniqueIds ==
  HasSession =>
    \A j, k \in 1..Len(Candidates) :
      j # k => heap[Candidates[j]].id # heap[Candidates[k]].id

\* C5, as stated: every candidate's suggestedTitle has at most 80 characters,
\* whether derived by addCandidate or changed through updateCandidate.
C5_TitleWithinLimit ==
  \A ref \in DOMAIN heap : Len(heap[ref].suggestedTitle) <= 80

\* C5, amended: the suggestedTitle addCandidate derives has at most 80
\* characters; a longer title enters only through an updateCandidate call that
\* supplies a suggestedTitle, which is stored as given.
C5_LongTitleOnlyByUpdate ==
  [][ \A ref \in DOMAIN heap' :
        Len(heap'[ref].suggestedTitle) > 80 =>
          \/ ref \in DOMAIN heap /\ heap[ref].suggestedTitle = heap'[ref].suggestedTitle
          \/ \E id \in SessionIdsOrNone, updates \in Patches :
               /\ "suggestedTitle" \in DOMAIN updates
               /\ heap'[ref].suggestedTitle = updates.suggestedTitle
               /\ UpdateCandidate(id, updates) ]_vars

\* addCandidate has derived a title from a concept of more than 80 characters
C5_Witness ==
  /\ lastOp.op = "addCandidate" /\ lastOp.err = NoError
  /\ Len(heap[lastOp.ref].concept) > 80
  /\ Len(heap[lastOp.ref].suggestedTitle) = 80
  /\ SubSeq(heap[lastOp.ref].suggestedTitle, 78, 80) = <<".", ".", ".">>

\* C6: createAtoms never overwrites an existing file and never fails because a
\* path exists: every file it creates is at a path that did not exist before.
C6_NeverOverwritesNorFailsOnExisting ==
  /\ ~call.overwrote
  /\ call.error # FileExists

\* C7: when file or folder creation fails for an approved candidate, createAtoms
\* rejects with that error, no later candidate has been processed, the
\* completed flag, the phase and the candidates are unchanged, and the files
\* created for earlier candidates of the batch remain.
C7_FailureAbortsBatch ==
  [][ /\ (call.pc = "rejected" /\ call'.pc = "rejected") => vault' = vault
      /\ (InFlight /\ call'.pc = "rejected" /\ call'.error \in {StorageFailure, FileExists}) =>
        /\ currentSession' = currentSession
        /\ materialised' = materialised
        /\ \A ref \in (IF HasSession THEN Range(Candidates) ELSE {}) : heap'[ref] = heap[ref]
        /\ vault'.files = vault.files
        /\ call'.createdFiles = call.createdFiles
        /\ call'.i = call.i
        /\ Len(call'.createdFiles) = call'.i - 1
        /\ \A k \in 1..Len(call'.createdFiles) : Exists(vault', call'.createdFiles[k]) ]_vars

\* the creation of the second of two approved candidates has failed after the
\* first one's file was written
C7_Witness ==
  /\ call.pc = "rejected"
  /\ call.error = StorageFailure
  /\ Len(call.approved) = 2
  /\ call.i = 2
  /\ Len(call.createdFiles) = 1
  /\ Exists(vault, call.createdFiles[1])
  /\ HasSession /\ ~currentSession.completed

\* the paths createAtomFile may choose for a candidate
PathsOf(candidate) ==
  {AtomPath(sanitiseTitle(candidate.suggestedTitle), suffix) :
     suffix \in {NoSuffix} \cup (0..MaxTime)}

C9_NoSessionThrows ==
  [][ ~HasSession =>
        /\ ( \/ AdvancePhase
             \/ \E phase \in AtomisationPhase : SetPhase(phase)
             \/ \E concept \in AllConcepts, random \in 1..MaxCandidates :
                  AddCandidate(concept, random) ) =>
               /\ lastOp'.err = NoActiveSession
               /\ currentSession' = NoSession
               /\ vault' = vault
        /\ CreateAtoms =>
               /\ call'.pc = "rejected"
               /\ call'.error = NoActiveSession
               /\ currentSession' = NoSession
               /\ vault' = vault ]_vars

\* createAtoms has been called with no session and has rejected
C9_Witness ==
  /\ ~HasSession
  /\ lastOp.op = "createAtoms"
  /\ call.pc = "rejected"
  /\ call.error = NoActiveSession
  /\ vault.files = NoFiles

\* the operations the specification calls session-scoped
SessionScoped ==
  {"advancePhase", "setPhase", "addCandidate", "updateCandidate", "removeCandidate"}

\* C10, as stated: every session-scoped operation invoked with no live session
\* raises NoActiveSession.
C10_AllRaiseNoActiveSession ==
  ~HasSession =>
    /\ lastOp.op \in SessionScoped => lastOp.err = NoActiveSession
    /\ lastOp.op = "createAtoms" => call.error = NoActiveSession

\* C10, amended: with no live session advancePhase, setPhase, addCandidate and
\* createAtoms raise NoActiveSession, while updateCandidate returns null and
\* removeCandidate returns false without raising; none of them changes the state.
C10_FourRaiseTwoReturn ==
  [][ (~HasSession /\ lastOp' # lastOp /\ lastOp'.op \in SessionScoped \cup {"createAtoms"}) =>
        /\ lastOp'.op \in {"advancePhase", "setPhase", "addCandidate"} =>
             lastOp'.err = NoActiveSession
        /\ lastOp'.op = "createAtoms" =>
             call'.pc = "rejected" /\ call'.error = NoActiveSession
        /\ lastOp'.op = "updateCandidate" =>
             lastOp'.err = NoError /\ lastOp'.ret = "null"
        /\ lastOp'.op = "removeCandidate" =>
             lastOp'.err = NoError /\ lastOp'.ret = "false"
        /\ UNCHANGED <<scheduler, timers, currentSession, heap, vault>> ]_vars

\* removeCandidate has been called with no session and has returned false
C10_Witness ==
  /\ ~HasSession
  /\ lastOp.op = "removeCandidate"
  /\ lastOp.err = NoError
  /\ lastOp.ret = "false"

\* the ids the caller passes: those of the session's candidates and an unknown one
CallerIds == SessionIdsOrNone \cup {FakeId}

\* C11: updateCandidate and removeCandidate never throw; for an id that matches
\* no candidate, and when no session exists, updateCandidate returns null and
\* removeCandidate returns false, and the session (phase, completed, candidate
\* list, every candidate's fields) is unchanged.
C11_UnknownIdIsNotAnError ==
  [][ /\ \A id \in CallerIds, updates \in Patches :
           UpdateCandidate(id, updates) =>
             /\ lastOp'.op = "updateCandidate" /\ lastOp'.err = NoError
             /\ (~HasSession \/ id \notin SessionIds) =>
                  /\ lastOp'.ret = "null"
                  /\ currentSession' = currentSession
                  /\ heap' = heap
      /\ \A id \in CallerIds :
           RemoveCandidate(id) =>
             /\ lastOp'.op = "removeCandidate" /\ lastOp'.err = NoError
             /\ (~HasSession \/ id \notin SessionIds) =>
                  /\ lastOp'.ret = "false"
                  /\ currentSession' = currentSession
                  /\ heap' = heap ]_vars

\* updateCandidate has been called with an unknown id on a session that has
\* candidates
C11_Witness ==
  /\ HasSession
  /\ Len(Candidates) = 2
  /\ lastOp.op = "updateCandidate"
  /\ lastOp.err = NoError
  /\ lastOp.ret = "null"

\* C12: updateCandidate on an existing id changes only the supplied fields of
\* that one candidate (the first with the id), an empty string included; its
\* other fields, every other candidate, the list and its order, the phase and
\* completed are unchanged, and the updated candidate is returned.
C12_UpdateIsFieldLocal ==
  [][ \A id \in SessionIdsOrNone, updates \in Patches :
        UpdateCandidate(id, updates) =>
          LET ref == Candidates[FindIndex(id) + 1]
          IN  /\ lastOp'.err = NoError
              /\ lastOp'.ret = "candidate"
              /\ lastOp'.ref = ref
              /\ currentSession' = currentSession
              /\ DOMAIN heap' = DOMAIN heap
              /\ \A other \in DOMAIN heap : other # ref => heap'[other] = heap[other]
              /\ DOMAIN heap'[ref] = DOMAIN heap[ref]
              /\ \A f \in DOMAIN heap[ref] :
                   heap'[ref][f] = IF f \in DOMAIN updates THEN updates[f] ELSE heap[ref][f] ]_vars

\* a candidate's derived title has been replaced by the empty string, next to
\* another candidate
C12_Witness ==
  /\ HasSession
  /\ Len(Candidates) = 2
  /\ lastOp.op = "updateCandidate"
  /\ lastOp.ret = "candidate"
  /\ heap[lastOp.ref].suggestedTitle = <<>>
  /\ heap[lastOp.ref].concept # <<>>
  /\ \E other \in DOMAIN heap : other # lastOp.ref /\ heap[other].suggestedTitle # <<>>

\* C13: removeCandidate(id) on a present id removes exactly that candidate (the
\* first with the id), returns true and keeps the relative order of the others;
\* the id is then absent, so that a second call with it returns false and
\* removes nothing, and the store has lost exactly one candidate in total.
C13_RemoveExactlyOnce ==
  [][ \A id \in SessionIdsOrNone :
        RemoveCandidate(id) =>
          /\ lastOp'.ret = "true"
          /\ currentSession' =
               [currentSession EXCEPT !.candidates = Splice(@, FindIndex(id))]
          /\ Len(Candidates') = Len(Candidates) - 1
          /\ \A ref \in DOMAIN heap' : heap'[ref] = heap[ref]
          /\ (FindIndex(id))' = -1 ]_vars

\* the candidates of list `from` that are also in list `to`, in the order of `from`
Surviving(from, to) == SelectSeq(from, LAMBDA ref : ref \in Range(to))

\* C14: addCandidate appends the new candidate at the end of the session's list
\* with explanation, evidence and critique empty, tags and relatedAtoms empty
\* and approved false, and leaves the existing candidates, their order, the
\* phase and completed unchanged; no operation changes the relative order of
\* the candidates that stay in a session, so the list order is the order of the
\* addCandidate calls of the surviving candidates.
C14_AddAppendsAtEnd ==
  [][ /\ \A concept \in AllConcepts, random \in 1..MaxCandidates :
           (HasSession /\ AddCandidate(concept, random)) =>
             LET ref == lastOp'.ref
             IN  /\ lastOp'.err = NoError /\ lastOp'.ret = "candidate"
                 /\ ref \notin DOMAIN heap
                 /\ currentSession' =
                      [currentSession EXCEPT !.candidates = Append(@, ref)]
                 /\ DOMAIN heap' = (DOMAIN heap) \cup {ref}
                 /\ \A old \in DOMAIN heap : heap'[old] = heap[old]
                 /\ heap'[ref].concept = concept
                 /\ heap'[ref].explanation = <<>>
                 /\ heap'[ref].evidence = <<>>
                 /\ heap'[ref].critique = <<>>
                 /\ heap'[ref].tags = <<>>
                 /\ heap'[ref].relatedAtoms = <<>>
                 /\ heap'[ref].approved = FALSE
      /\ (HasSession /\ HasSession') =>
           Surviving(Candidates', Candidates) = Surviving(Candidates, Candidates') ]_vars

\* a second candidate has been added behind one that was approved meanwhile
C14_Witness ==
  /\ HasSession
  /\ Len(Candidates) = 2
  /\ lastOp.op = "addCandidate"
  /\ lastOp.ref = Candidates[2]
  /\ heap[Candidates[1]].approved
  /\ ~heap[Candidates[2]].approved

\* s with its first character upper-cased
Capitalised(s) == IF s = <<>> THEN <<>> ELSE <<ToUpperCase(s[1])>> \o Tail(s)

EndsWithEllipsis(title) ==
  Len(title) >= 3 /\ SubSeq(title, Len(title) - 2, Len(title)) = <<".", ".", ".">>

\* C15, as stated: the suggestedTitle addCandidate derives is the concept with
\* its first character upper-cased when that is at most 80 characters long, and
\* otherwise a string of at most 80 characters that ends with '...'.
C15_TitleIsCapitalisedConcept ==
  \A ref \in DOMAIN heap :
    LET capitalised == Capitalised(heap[ref].concept)
        title == heap[ref].suggestedTitle
    IN  IF Len(capitalised) <= 80
          THEN title = capitalised
          ELSE Len(title) <= 80 /\ EndsWithEllipsis(title)

\* C15, amended: the derived suggestedTitle is the concept without its leading
\* and trailing whitespace, with its first character upper-cased, when that is
\* at most 80 characters long, and otherwise a string of at most 80 characters
\* that ends with '...'.
C15_TitleIsCapitalisedTrimmedConcept ==
  \A ref \in DOMAIN heap :
    LET concept == heap[ref].concept
        title == heap[ref].suggestedTitle
        lead == CHOOSE n \in 0..Len(concept) :
                  /\ \A k \in 1..n : concept[k] \in Whitespace
                  /\ (n = Len(concept) \/ concept[n + 1] \notin Whitespace)
        trail == CHOOSE n \in 0..(Len(concept) - lead) :
                   /\ \A k \in (Len(concept) - n + 1)..Len(concept) : concept[k] \in Whitespace
                   /\ (n = Len(concept) - lead \/ concept[Len(concept) - n] \notin Whitespace)
        core == SubSeq(concept, lead + 1, Len(concept) - trail)
    IN  IF Len(core) <= 80
          THEN title = Capitalised(core)
          ELSE Len(title) <= 80 /\ EndsWithEllipsis(title)

\* addCandidate has derived the title of a concept of 80 characters between two
\* blanks
C15_Witness ==
  /\ lastOp.op = "addCandidate" /\ lastOp.err = NoError
  /\ Len(heap[lastOp.ref].concept) = 82
  /\ heap[lastOp.ref].concept[1] = " "
  /\ Len(heap[lastOp.ref].suggestedTitle) = 80
  /\ heap[lastOp.ref].suggestedTitle[1] = "X"
  /\ heap[lastOp.ref].suggestedTitle[80] = "x"

\* an explanation contains, whatever the case of its letters, a hedging marker
ContainsHedging(explanation) ==
  \E n \in 1..Len(vagueMarkers) :
    Includes(ToLowerCase(explanation), ToLowerCase(vagueMarkers[n]))

\* C19: for every explanation that contains, case-insensitively, a marker of
\* the hedging list, validateExplanation returns valid = false whatever the
\* length; with at least 20 characters the result is the hedging-language
\* feedback with 2 suggestions.
C19_HedgingIsInvalid ==
  lastOp.op = "validateExplanation" =>
    LET explanation == lastOp.candidate.explanation
        result == lastOp.result
    IN  ContainsHedging(explanation) =>
          /\ result.valid = FALSE
          /\ Len(explanation) >= 20 =>
               /\ result.feedback = "The explanation contains hedging language. Be precise."
               /\ Len(result.suggestions) = 2

\* C20: for every explanation shorter than 20 characters validateExplanation
\* returns valid = false with the 'Too brief' feedback and exactly 3
\* suggestions, whatever the concept and whatever else the explanation contains.
C20_ShortIsTooBrief ==
  lastOp.op = "validateExplanation" =>
    LET explanation == lastOp.candidate.explanation
        result == lastOp.result
    IN  Len(explanation) < 20 =>
          /\ result.valid = FALSE
          /\ result.feedback =
               "Too brief. An atomic concept requires a substantive explanation."
          /\ Len(result.suggestions) = 3

\* an explanation of fewer than 20 characters that is a hedging marker has been
\* validated
C20_Witness ==
  /\ lastOp.op = "validateExplanation"
  /\ Len(lastOp.candidate.explanation) < 20
  /\ Len(lastOp.candidate.explanation) > 0
  /\ ContainsHedging(lastOp.candidate.explanation)
  /\ lastOp.result.valid = FALSE
  /\ Len(lastOp.result.suggestions) = 3

\* C16: startSession always succeeds and yields a session in phase introduction
\* with an empty candidate list and completed = false, whatever the phase, the
\* candidates or the completed flag of the session it replaces: no candidate of
\* the previous session is in the session getSession then returns.
C16_StartSessionIsFresh ==
  [][ \A sourceNote \in Notes :
        StartSession(sourceNote) =>
          /\ lastOp' = Returned("startSession", "session")
          /\ HasSession'
          /\ currentSession'.sourceNote = sourceNote
          /\ currentSession'.phase = "introduction"
          /\ currentSession'.candidates = <<>>
          /\ currentSession'.completed = FALSE
          /\ \A ref \in DOMAIN heap' :
               InFlight /\ \E k \in 1..Len(call.approved) : call.approved[k] = ref ]_vars

\* a session has been started in place of one that createAtoms had completed
\* with a created file
C16_Witness ==
  /\ call.pc = "resolved"
  /\ ~call.replaced
  /\ Len(call.createdFiles) >= 1
  /\ HasSession
  /\ ~currentSession.completed
  /\ currentSession.phase = "introduction"
  /\ Candidates = <<>>

\* C17: endSession always succeeds, also when no session exists, and is
\* idempotent; after it getSession returns null; getSession never throws and
\* changes nothing.
C17_EndSessionIdempotent ==
  [][ /\ EndSession =>
           /\ lastOp'.op = "endSession" /\ lastOp'.err = NoError
           /\ currentSession' = NoSession
           /\ ~HasSession => (heap' = heap /\ currentSession' = currentSession)
           /\ vault' = vault
      /\ GetSession =>
           /\ lastOp'.op = "getSession" /\ lastOp'.err = NoError
           /\ lastOp'.ret = "null" <=> currentSession = NoSession
           /\ lastOp'.ret = "session" <=> currentSession # NoSession
           /\ UNCHANGED <<scheduler, timers, currentSession, heap, vault>> ]_vars

\* endSession has returned without error and the service has no session and no
\* candidate
C17_Witness ==
  /\ lastOp.op = "endSession"
  /\ lastOp.err = NoError
  /\ ~HasSession
  /\ heap = [ref \in {} |-> <<>>]

\* C18: setPhase accepts each of the eight phases from every current phase,
\* sets the session's phase to exactly that value and leaves the candidates,
\* the completed flag and the source note unchanged; an advancePhase that
\* follows continues from the phase that was set.
C18_SetPhaseJumpsAnywhere ==
  [][ \A phase \in AtomisationPhase :
        (HasSession /\ SetPhase(phase)) =>
          /\ lastOp'.op = "setPhase" /\ lastOp'.err = NoError
          /\ currentSession'.phase = phase
          /\ currentSession' = [currentSession EXCEPT !.phase = phase]
          /\ heap' = heap
          /\ PhaseRank(NextPhase(currentSession'.phase)) =
               (IF PhaseRank(phase) < 8 THEN PhaseRank(phase) + 1 ELSE 8) ]_vars

\* setPhase has put a session that has candidates back into its first phase
C18_Witness ==
  /\ HasSession
  /\ lastOp.op = "setPhase"
  /\ lastOp.err = NoError
  /\ currentSession.phase = "introduction"
  /\ Len(Candidates) = 2

\* C21: validateExplanation tests the gates in the order length, hedging,
\* repetition, atomicity and returns the result of the first gate that fails,
\* never a combination of several; it returns valid = true, without a list of
\* suggestions, exactly when all four gates pass.
C21_FirstFailingGateOnly ==
  lastOp.op = "validateExplanation" =>
    LET explanation == lastOp.candidate.explanation
        concept == lastOp.candidate.concept
        result == lastOp.result
        short == Len(explanation) < MinExplanation
        hedged == hasVagueness(explanation)
        repeats == repeatsConcept(concept, explanation)
        several == hasMultipleConcepts(explanation)
    IN  /\ result \in {TooBrief, Hedging, RepeatsConcept, MultipleConcepts, Acceptable}
        /\ result = TooBrief <=> short
        /\ result = Hedging <=> (~short /\ hedged)
        /\ result = RepeatsConcept <=> (~short /\ ~hedged /\ repeats)
        /\ result = MultipleConcepts <=> (~short /\ ~hedged /\ ~repeats /\ several)
        /\ result.valid <=> ~(short \/ hedged \/ repeats \/ several)
        /\ result.suggestions = <<>> <=> result.valid

\* an explanation that both repeats its concept and holds several concepts has
\* been validated, and the result is the repetition gate's alone
C21_Witness ==
  /\ lastOp.op = "validateExplanation"
  /\ Len(lastOp.candidate.explanation) >= MinExplanation
  /\ ~hasVagueness(lastOp.candidate.explanation)
  /\ repeatsConcept(lastOp.candidate.concept, lastOp.candidate.explanation)
  /\ hasMultipleConcepts(lastOp.candidate.explanation)
  /\ lastOp.result = RepeatsConcept

\* the place of an issue fragment in the order the critique lists them
IssueRank(issue) ==
  CASE issue = TitleTooShort -> 1
    [] issue = TitleTooLong -> 2
    [] issue \in {NoEvidence, SparseEvidence} -> 3
    [] issue \in {TooBrief.feedback, Hedging.feedback, RepeatsConcept.feedback,
                  MultipleConcepts.feedback} -> 4
    [] issue = NoRelatedAtoms -> 5
    [] OTHER -> 0

\* C22: the rule-based critique is not short-circuited: each issue fragment
\* appears exactly when its own condition holds (title shorter than 10; title
\* longer than 80; evidence empty, else evidence shorter than 30; the
\* explanation invalid, with the validation's feedback; no related atom), the
\* fragments stand in that fixed order with a blank line between them, and the
\* fixed "No significant issues identified" message is returned exactly when no
\* condition holds.
C22_EveryIssueInOrder ==
  lastOp.op = "generateCritique" =>
    LET candidate == lastOp.candidate
        critique == lastOp.result
        validation == validateExplanation(candidate)
        Listed(issue) == \E k \in 1..Len(critique) : k % 2 = 1 /\ critique[k] = issue
        none == /\ Len(candidate.suggestedTitle) >= 10
                /\ Len(candidate.suggestedTitle) <= 80
                /\ Len(candidate.evidence) >= 30
                /\ validation.valid
                /\ Len(candidate.relatedAtoms) > 0
    IN  /\ Listed(TitleTooShort) <=> Len(candidate.suggestedTitle) < 10
        /\ Listed(TitleTooLong) <=> Len(candidate.suggestedTitle) > 80
        /\ Listed(NoEvidence) <=> Len(candidate.evidence) = 0
        /\ Listed(SparseEvidence) <=>
             (Len(candidate.evidence) > 0 /\ Len(candidate.evidence) < 30)
        /\ \A result \in {TooBrief, Hedging, RepeatsConcept, MultipleConcepts} :
             Listed(result.feedback) <=> validation = result
        /\ Listed(NoRelatedAtoms) <=> Len(candidate.relatedAtoms) = 0
        /\ Len(critique) % 2 = 1
        /\ \A k \in 1..Len(critique) : k % 2 = 0 <=> critique[k] = BlankLine
        /\ \A k \in 1..Len(critique) :
             (k % 2 = 1 /\ ~none) => IssueRank(critique[k]) > 0
        /\ \A j, k \in 1..Len(critique) :
             (j % 2 = 1 /\ k % 2 = 1 /\ j < k) =>
               IssueRank(critique[j]) < IssueRank(critique[k])
        /\ critique = <<NoIssues>> <=> none
        /\ Listed(NoIssues) <=> none

\* a critique has been given of a candidate that has four issues at once: a
\* long title, sparse evidence, an invalid explanation and no related atom
C22_Witness ==
  /\ lastOp.op = "generateCritique"
  /\ Len(lastOp.candidate.suggestedTitle) > 80
  /\ Len(lastOp.candidate.evidence) \in 1..29
  /\ ~validateExplanation(lastOp.candidate).valid
  /\ Len(lastOp.candidate.relatedAtoms) = 0
  /\ Len(lastOp.result) = 7

SplitOn(text, separator) ==
  LET breaks == {0, Len(text) + 1} \cup {i \in 1..Len(text) : text[i] = separator}
      Break(k) == CHOOSE b \in breaks : Cardinality({c \in breaks : c < b}) = k
  IN  [k \in 1..(Cardinality(breaks) - 1) |-> SubSeq(text, Break(k - 1) + 1, Break(k) - 1)]

\* the file that the createAtoms call just returned has created, read back
CreatedText == vault.files[call.createdFiles[1]]
CreatedFrom == heap[call.createdFor[1]]

\* the call just returned wrote the default content
WroteDefault ==
  /\ lastOp.op = "createAtoms"
  /\ lastOp.ret = "files"
  /\ lastOp.atomTemplatePath = NoPath \/ lastOp.templateFile.kind # "file"

EvidenceHeading == <<"#", "#", " ", "E", "v", "i", "d", "e", "n", "c", "e">>
RelatedHeading == <<"#", "#", " ", "R", "e", "l", "a", "t", "e", "d">>

\* C24: the default content of an atom has, for every candidate, the metadata
\* block, the H1 heading with the title and the explanation; the tags line
\* exactly when tags is non-empty, the Evidence section with its blockquote
\* exactly when evidence is non-empty, and the Related list, one wiki link per
\* related atom in order, exactly when relatedAtoms is non-empty; the file read
\* back gives title, explanation, evidence and links verbatim.
C24_DefaultContentSections ==
  WroteDefault =>
    LET candidate == CreatedFrom
        lines == SplitOn(CreatedText, "\n")
        Places(line) == {k \in 1..Len(lines) : lines[k] = line}
        fences == Places(<<"-", "-", "-">>)
        close == CHOOSE k \in fences : k > 1 /\ \A j \in fences : j > 1 => k <= j
        tagLines == {k \in 1..Len(lines) : StartsWith(lines[k], <<"t", "a", "g", "s", ":", " ", "[">>)}
        links == {k \in 1..Len(lines) : StartsWith(lines[k], <<"-", " ", "[", "[">>)}
    IN  /\ lines[1] = <<"-", "-", "-">>
        /\ Cardinality(fences) = 2
        /\ StartsWith(lines[2], <<"c", "r", "e", "a", "t", "e", "d", ":", " ">>)
        /\ lines[3] = <<"t", "y", "p", "e", ":", " ", "a", "t", "o", "m">>
        /\ tagLines # {} <=> Len(candidate.tags) > 0
        /\ Len(candidate.tags) > 0 =>
             /\ tagLines = {4}
             /\ lines[4] = <<"t", "a", "g", "s", ":", " ", "[">> \o JoinText(candidate.tags, <<",", " ">>) \o <<"]">>
        /\ lines[close + 1] = <<>>
        /\ lines[close + 2] = <<"#", " ">> \o candidate.suggestedTitle
        /\ lines[close + 3] = <<>>
        /\ lines[close + 4] = candidate.explanation
        /\ lines[close + 5] = <<>>
        /\ Places(EvidenceHeading) # {} <=> candidate.evidence # <<>>
        /\ candidate.evidence # <<>> =>
             /\ Places(EvidenceHeading) = {close + 6}
             /\ lines[close + 7] = <<>>
             /\ lines[close + 8] = <<">", " ">> \o candidate.evidence
             /\ lines[close + 9] = <<>>
        /\ Places(RelatedHeading) # {} <=> Len(candidate.relatedAtoms) > 0
        /\ Cardinality(links) = Len(candidate.relatedAtoms)
        /\ Len(candidate.relatedAtoms) > 0 =>
             \E at \in Places(RelatedHeading) :
               /\ Places(RelatedHeading) = {at}
               /\ at = close + (IF candidate.evidence # <<>> THEN 10 ELSE 6)
               /\ lines[at + 1] = <<>>
               /\ \A k \in 1..Len(candidate.relatedAtoms) :
                    lines[at + 1 + k] =
                      <<"-", " ", "[", "[">> \o candidate.relatedAtoms[k] \o <<"]", "]">>
               /\ lines[at + 2 + Len(candidate.relatedAtoms)] = <<>>
               /\ Len(lines) = at + 2 + Len(candidate.relatedAtoms)

\* the default content has been written for a candidate that has two tags,
\* evidence and two related atoms: 20 lines
C24_Witness ==
  /\ WroteDefault
  /\ Len(CreatedFrom.tags) = 2
  /\ CreatedFrom.evidence # <<>>
  /\ Len(CreatedFrom.relatedAtoms) = 2
  /\ Len(SplitOn(CreatedText, "\n")) = 20

\* the template with every template variable replaced, all at once, by its
\* value as it stands
LiteralFill(templateText, values) ==
  LET Holes(n) == Occurrences(templateText, Placeholders[n])
      holes == UNION {Holes(n) : n \in 1..Len(Placeholders)}
      Variable(i) == CHOOSE n \in 1..Len(Placeholders) : i \in Holes(n)
  IN  Rewrite(templateText, 1, holes, [i \in holes |-> Len(Placeholders[Variable(i)])],
              [i \in holes |-> values[Variable(i)]])

\* C25: when the template path resolves to an existing file, the created file
\* holds that template with every occurrence of {{title}}, {{concept}},
\* {{explanation}}, {{evidence}}, {{tags}}, {{date}} and {{content}} replaced by
\* the candidate's value for it, the value inserted literally; when the path is
\* empty or resolves to no file, the default content is written unchanged.
C25_TemplateFilledLiterally ==
  (lastOp.op = "createAtoms" /\ lastOp.ret = "files") =>
    LET candidate == CreatedFrom
        defaultContent == Text(buildAtomContent(candidate, currentSession))
    IN  IF lastOp.atomTemplatePath # NoPath /\ lastOp.templateFile.kind = "file"
          THEN CreatedText =
                 LiteralFill(lastOp.templateFile.content,
                             TemplateValues(candidate, defaultContent))
          ELSE CreatedText = defaultContent

\* C26: the base filename of every created atom file is the candidate's
\* suggestedTitle with every \ / : * ? " < > | removed and the surrounding
\* whitespace then trimmed (followed by the timestamp suffix when that name is
\* taken), so the filename part of a created path holds none of those
\* characters.
C26_FilenameIsSanitisedTitle ==
  (lastOp.op = "createAtoms" /\ lastOp.ret = "files") =>
    LET title == CreatedFrom.suggestedTitle
        name == FileName(call.createdFiles[1])
        kept == SelectSeq(title, LAMBDA c : c \notin {"\\", "/", ":", "*", "?", "\"", "<", ">", "|"})
        inner == {k \in 1..Len(kept) : kept[k] \notin Whitespace}
        first == CHOOSE k \in inner : \A j \in inner : k <= j
        last == CHOOSE k \in inner : \A j \in inner : k >= j
        base == IF inner = {} THEN <<>> ELSE SubSeq(kept, first, last)
    IN  /\ \/ name = base \o <<".", "m", "d">>
           \/ /\ AtomPath(base, NoSuffix) \in DOMAIN vault.files
              /\ name = base \o <<"-", ToString(now), ".", "m", "d">>
        /\ \A k \in 1..Len(name) :
             name[k] \notin {"\\", "/", ":", "*", "?", "\"", "<", ">", "|"}
        /\ DOMAIN vault.files \subseteq
             {AtomPath(base, NoSuffix), AtomPath(base, now)}

\* files have been created for a title that is whitespace and path characters
\* around its text, one under the plain name and one beside a file of that name
C26_Witness ==
  /\ lastOp.op = "createAtoms"
  /\ lastOp.ret = "files"
  /\ CreatedFrom.suggestedTitle = QuotedTitle
  /\ call.createdFiles[1].base = <<"a">>
  /\ call.createdFiles[1].suffix # NoSuffix

\* the configured folders a path lies under
FoldersOf(path, settings) ==
  { k \in 1..Len(settings.quarryFolders) :
      LET folder == settings.quarryFolders[k]
      IN  /\ Len(path) > Len(folder)
          /\ path[Len(folder) + 1] = "/"
          /\ \A i \in 1..Len(folder) : path[i] = folder[i] }

\* the notes of the vault that match: under a configured folder and with the
\* migration field at the quarry value, in the frontmatter that the metadata
\* cache holds or, with Dataview, in its index
MatchingNotes(settings, env) ==
  LET held == IF env.dataview.installed THEN env.dataview.pages ELSE env.metadataCache
  IN  { p \in DOMAIN vault.files \cap DOMAIN held :
          /\ FoldersOf(p, settings) # {}
          /\ held[p].cached
          /\ held[p].field = settings.migrationField
          /\ held[p].value = settings.quarryValue }

\* the matching notes that are found: those that can be read and, with
\* Dataview, lie under a folder whose query does not fail
FoundNotes(settings, env) ==
  { p \in MatchingNotes(settings, env) :
      /\ p \notin env.unreadable
      /\ env.dataview.installed =>
           \E k \in FoldersOf(p, settings) :
             settings.quarryFolders[k] \notin env.dataview.throws }

\* the files of a list of notes
FilesOf(notes) == {notes[k].file : k \in 1..Len(notes)}

\* C27 (as stated): getRandomQuarryNote returns null exactly when no note
\* matches and otherwise a matching note; without Dataview a note matches
\* exactly when it lies under a configured folder and its frontmatter has the
\* migration field at the quarry value.
C27_NullExactlyWhenNoneMatches ==
  lastOp.op = "getRandomQuarryNote" =>
    LET matching == MatchingNotes(lastOp.settings, lastOp.env)
    IN  /\ lastOp.ret = "null" <=> matching = {}
        /\ lastOp.ret = "note" => lastOp.note.file \in matching
        /\ ~lastOp.env.dataview.installed => FilesOf(lastOp.notes) = matching

\* C27 (amended): getRandomQuarryNote returns null exactly when no matching
\* note is found, and otherwise one of the matching notes that were found, with
\* its content; a matching note is not found when reading it fails (or, with
\* Dataview, when the query of its folder fails).  Without Dataview the notes
\* found are exactly the readable notes under a configured folder whose
\* frontmatter has the migration field at the quarry value.
C27_NullExactlyWhenNoneFound ==
  lastOp.op = "getRandomQuarryNote" =>
    LET found == FoundNotes(lastOp.settings, lastOp.env)
    IN  /\ lastOp.ret = "null" <=> found = {}
        /\ lastOp.ret = "note" =>
             /\ lastOp.note.file \in found
             /\ lastOp.note.content = vault.files[lastOp.note.file]
        /\ FilesOf(lastOp.notes) = found

\* without Dataview two notes match, one of them cannot be read and the other
\* is returned
C27_Witness ==
  /\ lastOp.op = "getRandomQuarryNote"
  /\ ~lastOp.env.dataview.installed
  /\ MatchingNotes(lastOp.settings, lastOp.env) = {FleetingNote, NestedNote}
  /\ lastOp.env.unreadable = {FleetingNote}
  /\ lastOp.ret = "note"
  /\ lastOp.note.file = NestedNote


\* where the marker stands in a text: the field's name, two colons, whitespace
\* or none, the quarry value
Markers(text, settings) ==
  { i \in 1..Len(text) :
      MarkerWidth(text, i, settings.migrationField, settings.quarryValue) > 0 }

\* the text with every marker turned into `field:: atomised`
Marked(text, settings) ==
  LET at == Markers(text, settings)
  IN  Rewrite(text, 1, at,
              [i \in at |-> MarkerWidth(text, i, settings.migrationField,
                                        settings.quarryValue)],
              [i \in at |-> settings.migrationField \o Atomised])

\* C28: markAsAtomised turns every marker of the note into `field:: atomised`
\* and changes nothing else; a note without the marker is not written; and
\* marking the note again would leave it as it is.
C28_MarksEveryMarkerOnce ==
  (lastOp.op = "markAsAtomised" /\ lastOp.err = NoError) =>
    LET before == lastOp.content
        after == vault.files[lastOp.file]
    IN  /\ after = Marked(before, lastOp.settings)
        /\ Markers(before, lastOp.settings) = {} => ~lastOp.modified /\ after = before
        /\ newContent(after, lastOp.settings) = after


\* the step is stop(), or updateSettings with notifications disabled
StopStep ==
  \/ lastOp'.op = "stop"
  \/ lastOp'.op = "updateSettings" /\ ~scheduler'.settings.notificationEnabled

\* the step is start() or updateSettings, run with notifications enabled
StartStep ==
  /\ lastOp'.op \in {"start", "updateSettings"}
  /\ scheduler'.settings.notificationEnabled

\* the step is a timer's callback that calls onNotification
NotifyStep ==
  /\ lastOp'.op \in {"timeout", "interval"}
  /\ lastOp'.fired > 0

\* C29: stop(), and updateSettings with notifications disabled, leave no timeout
\* and no interval armed; while none is armed onNotification is not called, and
\* only start() or updateSettings run with notifications enabled arm one;
\* start() with notifications disabled changes nothing; updateSettings with
\* notifications enabled leaves what stop() followed by start() leaves.
C29_StoppedUntilStarted ==
  [][ /\ StopStep =>
           /\ timers' = {}
           /\ scheduler'.scheduledTimeout = NoHandle
           /\ scheduler'.checkInterval = NoHandle
      /\ NotifyStep => timers # {}
      /\ (timers = {} /\ timers' # {}) => StartStep
      /\ (lastOp'.op = "start" /\ ~scheduler.settings.notificationEnabled) =>
           (timers' = timers /\ scheduler' = scheduler)
      /\ (lastOp'.op = "updateSettings" /\ scheduler'.settings.notificationEnabled) =>
           LET given == [Scheduling EXCEPT !.scheduler.settings = scheduler'.settings]
               after == start(stop(given), now)
           IN  scheduler' = after.scheduler /\ timers' = after.timers
    ]_vars


\* the minute of the day that is configured
TargetMinute(settings) == settings.notificationHour * 60 + settings.notificationMinute

\* the first time after t at which the clock shows the configured hour:minute
NextOccurrence(settings, t) ==
  CHOOSE d \in (t + 1)..(t + MinutesPerDay) : d % MinutesPerDay = TargetMinute(settings)

\* when the timeout that the scheduler holds is due, if it is armed
TimeoutDue(held, armed) ==
  {timer.due : timer \in {a \in armed : ~a.interval /\ a.id = held.scheduledTimeout}}

\* the step is a timer's callback, run with notifications enabled and no
\* notification made today
CallbackStep ==
  /\ lastOp'.op \in {"timeout", "interval"}
  /\ scheduler.settings.notificationEnabled
  /\ scheduler.settings.lastNotificationDate # today(now)

\* the clock has come to the time the timeout waits for
Reached == \E due \in TimeoutDue(scheduler, timers) : due <= now

\* what holds of the timeout in both readings: start() arms it for the next
\* time the clock shows hour:minute, which is the next day when that time has
\* passed or is just now; a callback run when the clock has come to that time
\* calls onNotification; and after every call of onNotification a timeout is
\* armed for the next occurrence
TimeoutKept ==
  /\ StartStep =>
       TimeoutDue(scheduler', timers') = {NextOccurrence(scheduler'.settings, now)}
  /\ (CallbackStep /\ Reached) => lastOp'.fired = 1
  /\ NotifyStep => TimeoutDue(scheduler', timers') = {NextOccurrence(scheduler'.settings, now)}

\* C30 (as stated): onNotification is not called before the clock has come to
\* the configured hour:minute for which the timeout is armed (that of the next
\* day if the time had passed when the scheduler was started), it is called
\* when the clock comes to it, and after every call a timeout is armed for the
\* next occurrence.
C30_NotBeforeTheTimeout ==
  [][ /\ NotifyStep => Reached
      /\ TimeoutKept
    ]_vars

\* C30 (amended): onNotification is called only with notifications enabled and
\* no notification made today, and only when the clock has come to the time
\* the timeout is armed for or, by an interval check, at most 30 minutes after
\* the configured hour:minute of the same day; the rest is as stated.
C30_NotBeforeTheTimeOfDay ==
  [][ /\ NotifyStep =>
           /\ scheduler.settings.notificationEnabled
           /\ scheduler.settings.lastNotificationDate # today(now)
           /\ \/ Reached
              \/ /\ lastOp'.op = "interval"
                 /\ now % MinutesPerDay >= TargetMinute(scheduler.settings)
                 /\ now % MinutesPerDay <= TargetMinute(scheduler.settings) + CheckWindow
      /\ TimeoutKept
    ]_vars

\* the scheduler was started at 9:10 for 9:00: the interval check of 9:15 has
\* called onNotification, and the timeout is armed for 9:00 of the next day
C30_Witness ==
  /\ lastOp.op = "interval"
  /\ lastOp.fired = 1
  /\ now = 555
  /\ TargetMinute(scheduler.settings) = 540
  /\ TimeoutDue(scheduler, timers) = {MinutesPerDay + 540}

\* a callback of a timer has just run: the timeout's or the interval's
TimerRan == lastOp.op \in {"timeout", "interval"}

\* C31: while lastNotificationDate is the date of today, a timer's callback,
\* the timeout's and the interval's alike, does not call onNotification
C31_NotifiedTodayStaysSilent ==
  (TimerRan /\ scheduler.settings.lastNotificationDate = today(now)) => lastOp.fired = 0

\* the timeout has run at the target time on a day already notified
C31_Witness ==
  /\ lastOp.op = "timeout"
  /\ scheduler.settings.notificationEnabled
  /\ scheduler.settings.lastNotificationDate = today(now)
  /\ now % MinutesPerDay = TargetMinute(scheduler.settings)
  /\ lastOp.fired = 0

\* the time of day, in minutes since midnight
TimeOfDay == now % MinutesPerDay

\* C32: the interval check calls onNotification only at or after the target
\* time and at most 30 minutes past it, on the same day, and the timeout only
\* at the target time; so a scheduler started more than 30 minutes after the
\* target time stays silent until the target time of the next day
C32_OnlyWithinTheWindow ==
  (TimerRan /\ lastOp.fired > 0) =>
    /\ TargetMinute(scheduler.settings) <= TimeOfDay
    /\ TimeOfDay <= TargetMinute(scheduler.settings) + CheckWindow
    /\ lastOp.op = "timeout" => TimeOfDay = TargetMinute(scheduler.settings)

\* the interval check has run more than 30 minutes after the target time of a
\* day not yet notified, and has not called back
C32_Witness ==
  /\ lastOp.op = "interval"
  /\ scheduler.settings.notificationEnabled
  /\ scheduler.settings.lastNotificationDate # today(now)
  /\ TimeOfDay > TargetMinute(scheduler.settings) + CheckWindow
  /\ lastOp.fired = 0

\* C33: onNotification is called at most once per calendar day, also when the
\* timeout and the interval check are both due and lastNotificationDate has
\* not been updated: a callback that has called onNotification is not followed,
\* at the same minute of the same day, by another callback that calls it
C33_OncePerDay ==
  [][(TimerRan /\ lastOp.fired > 0) => ~(NotifyStep /\ now' = now)]_vars

\* C34: after any start, stop and updateSettings calls at most one timeout
\* and at most one interval are armed, and each armed timer is the one whose
\* handle the scheduler holds, so that stop() cancels every timer
C34_NoTimerLeaked ==
  /\ Cardinality({timer \in timers : timer.interval}) <= 1
  /\ Cardinality({timer \in timers : ~timer.interval}) <= 1
  /\ \A timer \in timers :
       timer.id = (IF timer.interval THEN scheduler.checkInterval
                                     ELSE scheduler.scheduledTimeout)

\* the places of a text at which a word starts, the word that starts there,
\* and the set of a text's words: the runs of characters between whitespace
WordStarts(text) ==
  {k \in 1..Len(text) : text[k] \notin Whitespace /\ (k = 1 \/ text[k - 1] \in Whitespace)}

WordFrom(text, k) ==
  SubSeq(text, k, CHOOSE j \in k..Len(text) :
                    /\ \A q \in k..j : text[q] \notin Whitespace
                    /\ (j = Len(text) \/ text[j + 1] \in Whitespace))

WordsOf(text) == {WordFrom(text, k) : k \in WordStarts(text)}

\* the concept's words of more than 3 characters that are among the
\* explanation's words, all in lower case, each counted where it stands
RepeatedWords(candidate) ==
  LET concept == ToLowerCase(candidate.concept)
  IN  {k \in WordStarts(concept) :
         /\ Len(WordFrom(concept, k)) > 3
         /\ WordFrom(concept, k) \in WordsOf(ToLowerCase(candidate.explanation))}

C36_ValidatorIsPure ==
  [][ lastOp'.op \in {"validateExplanation", "generateCritique"} =>
        /\ currentSession' = currentSession
        /\ heap' = heap
        /\ lastOp'.op = "validateExplanation" =>
             lastOp'.result = validateExplanation(lastOp'.candidate)
        /\ lastOp'.op = "generateCritique" =>
             lastOp'.result = generateRuleBasedCritique(lastOp'.candidate) ]_vars

\* generateCritique has been called on a candidate of the current session and
\* has found issues
C36_Witness ==
  /\ lastOp.op = "generateCritique"
  /\ HasSession
  /\ \E k \in 1..Len(Candidates) : heap[Candidates[k]] = lastOp.candidate
  /\ lastOp.result # <<NoIssues>>

\* a candidate of the session is approved
SomeApproved == \E k \in 1..Len(Candidates) : heap[Candidates[k]].approved

\* C37: in the confirmation phase, once a candidate is approved, the action
\* that advances the session to the creation phase is available
C37_CreateOfferedOnceApproved ==
  (HasSession /\ view.page = "confirmation" /\ SomeApproved) => ENABLED ClickCreate

\* the list of a session that goes on has lost a candidate
CandidateRemoved ==
  /\ HasSession
  /\ HasSession'
  /\ currentSession'.phase # "introduction"
  /\ Len(currentSession'.candidates) < Len(currentSession.candidates)

\* C39: a session is never in the explanation phase or a later one with an
\* empty candidate list: the button that leaves identification is there only
\* while the list holds a candidate, and a candidate is removed only in the
\* identification phase
C39_NoLaterPhaseWithoutCandidates ==
  [][ /\ (HasSession' /\ currentSession'.phase \notin {"introduction", "identification"})
           => Len(currentSession'.candidates) > 0
      /\ "Continue to Explanations" \in view'.nav
           => (HasSession' /\ Len(currentSession'.candidates) > 0)
      /\ CandidateRemoved
           => (currentSession.phase = "identification"
               /\ currentSession'.phase = "identification") ]_vars

\* the first of two concepts has been removed in the identification phase, and
\* the button that leaves the phase is still there for the second
C39_Witness ==
  /\ HasSession
  /\ view.page = "identification"
  /\ Len(Candidates) = 1
  /\ heap[Candidates[1]].id.r = 2
  /\ "Continue to Explanations" \in view.nav

\* the vault as it was before the call of markAsAtomised that has just returned
VaultBefore ==
  IF lastOp.file \in DOMAIN vault.files
  THEN [vault EXCEPT !.files = [@ EXCEPT ![lastOp.file] = lastOp.content]]
  ELSE vault

\* the note was a quarry note when markAsAtomised was called on it
WasQuarryNote(dataview) ==
  isQuarryNote(lastOp.file, VaultBefore, InStep(VaultBefore, lastOp.settings, dataview),
               lastOp.settings)

\* the note is a quarry note now
StillQuarryNote(dataview) ==
  isQuarryNote(lastOp.file, vault, InStep(vault, lastOp.settings, dataview), lastOp.settings)

\* C38: once markAsAtomised has returned for a quarry note, the note is no
\* longer among the notes getAllQuarryNotes finds, so that isQuarryNote and
\* getRandomQuarryNote do not return it again, with Dataview and with the
\* frontmatter fallback alike
C38_AtomisedLeavesQuarry ==
  (lastOp.op = "markAsAtomised" /\ lastOp.err = NoError) =>
    \A dataview \in BOOLEAN : WasQuarryNote(dataview) => ~StillQuarryNote(dataview)

\* the same for the notes whose status stands in an inline field of the body,
\* which Dataview alone reads
C38_InlineFieldLeavesQuarry ==
  (lastOp.op = "markAsAtomised" /\ lastOp.err = NoError
     /\ FrontmatterEnd(lastOp.content) = 0) =>
    \A dataview \in BOOLEAN : WasQuarryNote(dataview) => ~StillQuarryNote(dataview)

\* a quarry note with an inline field has been marked and has left the quarry
C38_InlineWitness ==
  /\ lastOp.op = "markAsAtomised"
  /\ lastOp.err = NoError
  /\ lastOp.modified
  /\ WasQuarryNote(TRUE)
  /\ ~StillQuarryNote(TRUE)

====
